---- MODULE Spec2Model ----
(***************************************************************************)
(* Model of the forensic bundle-detection engine: the Scoring Engine       *)
(* (calculateScore), the Distribution-Tree Tracer (traceDistributionTree   *)
(* and traceEvmDistributionTree) and the scan driver (runFullScan).        *)
(*                                                                         *)
(* Four specifications share the module:                                  *)
(*   SpecScore  inputs of calculateScore drawn in Init, one action applies *)
(*              the function;                                              *)
(*   SpecTrace  one run of a tracer, one action per loop iteration;        *)
(*   SpecScan   one run of runFullScan, one action per collaborator call;  *)
(*   SpecFetch  the requests of one trace, one action per request issued   *)
(*              or settled.                                                *)
(* The variables of the other specifications stay at their idle value.     *)
(***************************************************************************)
EXTENDS Integers, Sequences, FiniteSets, TLC

VARIABLES
    \* ---- calculateScore: arguments and returned value
    liquidityUsd,      \* number (USD)
    security,          \* SecurityData or absent (present = FALSE)
    analysis,          \* the fields of `analysis` that calculateScore reads
    bundleControl,     \* BundleControlResult or absent (present = FALSE)
    scoreOut           \* { score, breakdown } once calculateScore returned

scoreVars == <<liquidityUsd, security, analysis, bundleControl, scoreOut>>

VARIABLES
    \* ---- traceDistributionTree / traceEvmDistributionTree: one call
    flavor,            \* "solana" (Helius adapter) or "evm" (Alchemy adapter)
    apiKey,            \* TRUE when getApiKey() returns a non-empty key
    seedAddresses,     \* the argument
    tpc,               \* position in the function body
    idx,               \* number of elements of the current loop already consumed
    knownAddresses,    \* Set<string>
    results,           \* HeliusWalletData[]
    levelArray,        \* level1Array / level2Array / level3Array
    balances,          \* the Map built by batchGetBalances, in insertion order
    fetchCount,        \* network fetches (activity or balance) issued so far
    recordsSeen,       \* outgoing records the provider has returned so far
    failedReads        \* the reads that failed so far: node position and kind

traceVars == <<flavor, apiKey, seedAddresses, tpc, idx, knownAddresses, results,
               levelArray, balances, fetchCount, recordsSeen, failedReads>>

VARIABLES
    \* ---- runFullScan: one call
    moralisKey,        \* TRUE when VITE_MORALIS_API_KEY is set
    heliusKey,         \* TRUE when VITE_HELIUS_API_KEY is set
    alchemyKey,        \* TRUE when VITE_ALCHEMY_API_KEY is set
    spc,               \* position in the function body
    bestPair,          \* allDexPairs[0], or absent (present = FALSE)
    securityData,      \* SecurityData or null
    forensics,         \* ForensicData or null
    forensicsStatus,   \* 'SUCCESS' | 'MISSING_KEY' | 'NOT_SUPPORTED' | 'ERROR'
    analysisResult,    \* what analyzeForensics returned
    scanResult,        \* the ScanResult once runFullScan returned
    calls,             \* the collaborators called so far
    failures           \* the collaborators whose provider failed or that threw

scanVars == <<moralisKey, heliusKey, alchemyKey, spc, bestPair, securityData,
              forensics, forensicsStatus, analysisResult, scanResult, calls,
              failures>>

VARIABLES
    \* ---- the network requests of one trace, request by request
    adapter,           \* "helius" or "alchemy"
    tokenAddress,      \* the argument (mintAddress in the Helius adapter)
    walletQueue,       \* the wallets read at hops 0 to 2, in the order read
    hop3Array,         \* level3Array, handed to the batch balance lookup
    history,           \* what the provider answers for the first wallet
    fpc,               \* position in the function body
    pos,               \* index of the wallet or of the group being read
    inFlight,          \* the network requests issued and not yet settled
    pending,           \* the promises the awaited Promise.all still waits for
    allTxs,            \* the activity fetched for the wallet being read
    currentBalance,    \* the balance fetched for the wallet being read
    walletData,        \* the node built last, or absent (present = FALSE)
    lookedUp,          \* what the settled lookups of the batch returned
    trail              \* the groups issued and the delays taken, in order

fetchVars == <<adapter, tokenAddress, walletQueue, hop3Array, history, fpc, pos,
               inFlight, pending, allTxs, currentBalance, walletData, lookedUp,
               trail>>

vars == <<scoreVars, traceVars, scanVars, fetchVars>>

----------------------------------------------------------------------------
(* Scoring Engine                                                          *)

\* `security` is null when the audit is unavailable: every read is `security?.x`.
NoSecurity ==
    [present |-> FALSE, is_honeypot |-> FALSE, is_mintable |-> FALSE,
     buy_tax |-> 0, sell_tax |-> 0, cannot_sell_all |-> FALSE]

\* buy_tax / sell_tax are percent strings read with parseFloat; the model keeps
\* the parsed number. 10 and 11 sit on either side of the `> 10` test.
TaxValues == {10, 11}

SecurityValues ==
    {NoSecurity} \cup
    [present : {TRUE}, is_honeypot : BOOLEAN, is_mintable : BOOLEAN,
     buy_tax : TaxValues, sell_tax : TaxValues, cannot_sell_all : BOOLEAN]

\* Values on either side of every tier boundary of the rule that reads them.
LiquidityValues == {999, 1000, 4999, 5000, 19999, 20000}
BundleWalletCounts == {0, 2, 3, 5, 6, 10, 11}
Block0Volumes == {0, 5000, 5001, 10000, 10001, 50000, 50001}
HoldingConcentrations == {0, 60, 61, 80, 81}

AnalysisValues ==
    [bundleWalletCount : BundleWalletCounts, block0Volume : Block0Volumes,
     holdingConcentration : HoldingConcentrations]

\* bundleControl is an optional argument. lpImpactRatio is kept in tenths
\* (15 stands for 1.5) so that the tiers 1.5 / 1.0 / 0.5 are integers.
NoBundleControl ==
    [present |-> FALSE, clusterCount |-> 0, lpImpactRatio |-> 0,
     totalBundledSupplyPercent |-> 0]

LpImpactRatios == {5, 6, 10, 11, 15, 16}
BundledSupplyPercents == {0, 10, 11, 30, 31}

\* Absent; present without a cluster (the two deep rules must stay silent
\* whatever the other fields say); present with a cluster.
BundleControlValues ==
    {NoBundleControl,
     [present |-> TRUE, clusterCount |-> 0, lpImpactRatio |-> 16,
      totalBundledSupplyPercent |-> 31]}
    \cup [present : {TRUE}, clusterCount : {1}, lpImpactRatio : LpImpactRatios,
          totalBundledSupplyPercent : BundledSupplyPercents]

Factor(label, impact, status) ==
    [label |-> label, impact |-> impact, status |-> status]

Max(a, b) == IF a >= b THEN a ELSE b
Min(a, b) == IF a <= b THEN a ELSE b

\* What one rule of calculateScore does: `score -= penalty` and one
\* breakdown.push. A rule written as an `if` without `else` does neither when
\* its condition is false.
Hit(penalty, label, impact, status) ==
    [penalty |-> penalty, entries |-> <<Factor(label, impact, status)>>]
NoEntry == [penalty |-> 0, entries |-> <<>>]

MintableRule(sec) ==
    IF sec.present /\ sec.is_mintable
    THEN Hit(25, "Mintable Supply", -25, "fail") ELSE NoEntry

\* parseFloat(security?.buy_tax || '0')
BuyTaxRule(sec) ==
    IF (IF sec.present THEN sec.buy_tax ELSE 0) > 10
    THEN Hit(15, "Buy Tax", -15, "fail") ELSE NoEntry

SellTaxRule(sec) ==
    IF (IF sec.present THEN sec.sell_tax ELSE 0) > 10
    THEN Hit(15, "Sell Tax", -15, "fail") ELSE NoEntry

SellRestrictionRule(sec) ==
    IF sec.present /\ sec.cannot_sell_all
    THEN Hit(30, "Sell Restriction", -30, "fail") ELSE NoEntry

LiquidityRuleTiersSwapped(liq) ==
    IF liq < 1000 THEN Hit(25, "Liquidity", -25, "warn")
    ELSE IF liq < 5000 THEN Hit(40, "Liquidity", -40, "fail")
    ELSE IF liq < 20000 THEN Hit(10, "Liquidity", -10, "warn")
    ELSE Hit(0, "Liquidity", 0, "pass")
LiquidityRuleSilentPass(liq) ==
    IF liq < 1000 THEN Hit(40, "Liquidity", -40, "fail")
    ELSE IF liq < 5000 THEN Hit(25, "Liquidity", -25, "warn")
    ELSE IF liq < 20000 THEN Hit(10, "Liquidity", -10, "warn")
    ELSE NoEntry
LiquidityRule(liq) ==
    IF liq < 1000 THEN Hit(40, "Liquidity", -40, "fail")
    ELSE IF liq < 5000 THEN Hit(25, "Liquidity", -25, "warn")
    ELSE IF liq < 20000 THEN Hit(10, "Liquidity", -10, "warn")
    ELSE Hit(0, "Liquidity", 0, "pass")

BundleActivityRule(an) ==
    IF an.bundleWalletCount > 10 THEN Hit(30, "Bundle Activity", -30, "fail")
    ELSE IF an.bundleWalletCount > 5 THEN Hit(15, "Bundle Activity", -15, "warn")
    ELSE IF an.bundleWalletCount > 2 THEN Hit(5, "Bundle Activity", -5, "warn")
    ELSE Hit(0, "Bundle Activity", 0, "pass")

LaunchVolumeRuleDrift(an) ==
    IF an.block0Volume > 50000 THEN Hit(25, "Launch Volume", -25, "fail")
    ELSE IF an.block0Volume > 10000 THEN Hit(15, "Launch Volume", -10, "warn")
    ELSE IF an.block0Volume > 5000 THEN Hit(10, "Launch Volume", -10, "warn")
    ELSE Hit(0, "Launch Volume", 0, "info")
LaunchVolumeRule(an) ==
    IF an.block0Volume > 50000 THEN Hit(25, "Launch Volume", -25, "fail")
    ELSE IF an.block0Volume > 10000 THEN Hit(15, "Launch Volume", -15, "warn")
    ELSE IF an.block0Volume > 5000 THEN Hit(10, "Launch Volume", -10, "warn")
    ELSE Hit(0, "Launch Volume", 0, "pass")

HolderConcentrationRule(an) ==
    IF an.holdingConcentration > 80
    THEN Hit(20, "Holder Concentration", -20, "fail")
    ELSE IF an.holdingConcentration > 60
    THEN Hit(10, "Holder Concentration", -10, "warn")
    ELSE Hit(0, "Holder Concentration", 0, "pass")

DeepAnalysisPresent(bc) == bc.present /\ bc.clusterCount > 0

LpImpactRule(bc) ==
    IF ~DeepAnalysisPresent(bc) THEN NoEntry
    ELSE IF bc.lpImpactRatio > 15 THEN Hit(20, "LP Impact Ratio", -20, "fail")
    ELSE IF bc.lpImpactRatio > 10 THEN Hit(15, "LP Impact Ratio", -15, "fail")
    ELSE IF bc.lpImpactRatio > 5 THEN Hit(10, "LP Impact Ratio", -10, "warn")
    ELSE Hit(0, "LP Impact Ratio", 0, "pass")

BundledSupplyRuleWithoutCluster(bc) ==
    IF ~bc.present THEN NoEntry
    ELSE IF bc.totalBundledSupplyPercent > 30
    THEN Hit(15, "Bundled Supply", -15, "fail")
    ELSE IF bc.totalBundledSupplyPercent > 10
    THEN Hit(8, "Bundled Supply", -8, "warn")
    ELSE IF bc.totalBundledSupplyPercent > 0
    THEN Hit(0, "Bundled Supply", 0, "pass")
    ELSE NoEntry
BundledSupplyRule(bc) ==
    IF ~DeepAnalysisPresent(bc) THEN NoEntry
    ELSE IF bc.totalBundledSupplyPercent > 30
    THEN Hit(15, "Bundled Supply", -15, "fail")
    ELSE IF bc.totalBundledSupplyPercent > 10
    THEN Hit(8, "Bundled Supply", -8, "warn")
    ELSE IF bc.totalBundledSupplyPercent > 0
    THEN Hit(0, "Bundled Supply", 0, "pass")
    ELSE NoEntry

\* The rules in the order calculateScore evaluates them after the honeypot test.
Rules(liq, sec, an, bc) ==
    <<MintableRule(sec), BuyTaxRule(sec), SellTaxRule(sec),
      SellRestrictionRule(sec), LiquidityRule(liq), BundleActivityRule(an),
      LaunchVolumeRule(an), HolderConcentrationRule(an), LpImpactRule(bc),
      BundledSupplyRule(bc)>>

RECURSIVE SumPenalties(_)
SumPenalties(rules) ==
    IF rules = <<>> THEN 0
    ELSE Head(rules).penalty + SumPenalties(Tail(rules))

RECURSIVE AllEntries(_)
AllEntries(rules) ==
    IF rules = <<>> THEN <<>>
    ELSE Head(rules).entries \o AllEntries(Tail(rules))

RECURSIVE SumImpacts(_)
SumImpacts(entries) ==
    IF entries = <<>> THEN 0
    ELSE Head(entries).impact + SumImpacts(Tail(entries))

\* Math.max(0, Math.min(100, score))
ClampNoFloor(raw) == Min(100, raw)
Clamp(raw) == Max(0, Min(100, raw))

\* security?.is_honeypot
HoneypotIgnored(sec) == FALSE
Honeypot(sec) == sec.present /\ sec.is_honeypot

calculateScore(liq, sec, an, bc) ==
    IF Honeypot(sec)
    THEN [score |-> 0, breakdown |-> <<Factor("Honeypot", -100, "fail")>>]
    ELSE LET rules == Rules(liq, sec, an, bc)
         IN  [score |-> Clamp(100 - SumPenalties(rules)),
              breakdown |-> AllEntries(rules)]

NotScored == [score |-> -1, breakdown |-> <<>>]

\* The inputs of one evaluation: every combination of the boundary values,
\* and the evaluation of a token with liquidity 500, 12 bundle wallets, a
\* launch volume of 60000, a concentration of 85 and a mintable supply.
ScoreInputs ==
    /\ \/ /\ liquidityUsd \in LiquidityValues
          /\ security \in SecurityValues
          /\ analysis \in AnalysisValues
          /\ bundleControl \in BundleControlValues
       \/ /\ liquidityUsd = 500
          /\ security = [present |-> TRUE, is_honeypot |-> FALSE,
                         is_mintable |-> TRUE, buy_tax |-> 0, sell_tax |-> 0,
                         cannot_sell_all |-> FALSE]
          /\ analysis = [bundleWalletCount |-> 12, block0Volume |-> 60000,
                         holdingConcentration |-> 85]
          /\ bundleControl = NoBundleControl
    /\ scoreOut = NotScored

ScoreIdle ==
    /\ liquidityUsd = 0
    /\ security = NoSecurity
    /\ analysis = [bundleWalletCount |-> 0, block0Volume |-> 0,
                   holdingConcentration |-> 0]
    /\ bundleControl = NoBundleControl
    /\ scoreOut = NotScored

CalculateScore ==
    /\ scoreOut = NotScored
    /\ scoreOut' = calculateScore(liquidityUsd, security, analysis, bundleControl)
    /\ UNCHANGED <<liquidityUsd, security, analysis, bundleControl>>
    /\ UNCHANGED <<traceVars, scanVars, fetchVars>>

----------------------------------------------------------------------------
(* Distribution-Tree Tracer                                                *)

\* MAX_TOTAL_WALLETS is 400 in both adapters. The model runs the same code with
\* the cap scaled down, so that seed lists longer than the cap and levels wider
\* than the remaining room fit in the state space.
MAX_TOTAL_WALLETS == 4

\* batchSize of batchGetBalances, `chunk` of batchGetEvmBalances.
batchSize == 5

NumWallets == 5      \* ordinary wallet addresses
MaxSeeds == 5        \* longest seed list
MaxShortSeeds == 2   \* longest seed list with repeated or excluded seeds
MaxOut == 2          \* outgoing records one activity fetch returns
MaxRecords == 3      \* outgoing records the provider returns in one trace
MaxFailures == 1     \* provider reads that fail in one trace

WalletNames == <<"w1", "w2", "w3", "w4", "w5", "w6", "w7", "w8">>
Wallets == {WalletNames[k] : k \in 1..NumWallets}

\* Helius adapter: members of EXCLUDED_ADDRESSES, and strings shorter than 20
\* characters (the empty string included). Wallet names are symbolic: they
\* stand for full-length base58 addresses.
SystemProgram == "11111111111111111111111111111111"
EXCLUDED_ADDRESSES == {SystemProgram}
ShortAddresses == {""}

\* Alchemy adapter: EXCLUDED_ADDRESSES holds lower-case strings; DeadChecksum is
\* the same address in another letter case.
DeadAddress == "0x000000000000000000000000000000000000dead"
DeadChecksum == "0x000000000000000000000000000000000000dEaD"
EVM_EXCLUDED_ADDRESSES == {DeadAddress}

\* Addresses as the forensic provider reports them. Solana addresses are
\* base58, where letter case is significant; EVM addresses may come in checksum
\* case. Each name stands for a full-length address.
SolanaBuyers == <<"SoLBuyerA", "SoLBuyerB", "SoLBuyerC", "SoLBuyerD">>
SolanaWhale == "SoLWhale"
EvmDeployer == "0xDeV"
EvmBuyers == <<"0xBuyerA", "0xBuyerB", "0xBuyerC", "0xBuyerD">>
EvmOther == "0xOtheR"

\* String.prototype.toLowerCase on the addresses of the model.
LowerCased ==
    (DeadChecksum :> DeadAddress)
    @@ ("SoLBuyerA" :> "solbuyera") @@ ("SoLBuyerB" :> "solbuyerb")
    @@ ("SoLBuyerC" :> "solbuyerc") @@ ("SoLBuyerD" :> "solbuyerd")
    @@ ("SoLWhale" :> "solwhale") @@ ("0xDeV" :> "0xdev")
    @@ ("0xBuyerA" :> "0xbuyera") @@ ("0xBuyerB" :> "0xbuyerb")
    @@ ("0xBuyerC" :> "0xbuyerc") @@ ("0xBuyerD" :> "0xbuyerd")
    @@ ("0xOtheR" :> "0xother")

toLowerCase(addr) ==
    IF addr \in DOMAIN LowerCased THEN LowerCased[addr] ELSE addr

Flavors == {"solana", "evm"}

Infrastructure(f) ==
    IF f = "solana" THEN EXCLUDED_ADDRESSES \cup ShortAddresses
    ELSE EVM_EXCLUDED_ADDRESSES \cup {DeadChecksum}

Addresses(f) == Wallets \cup Infrastructure(f)

\* heliusService: isExcludedAddress
isExcludedAddress(addr) ==
    addr \in ShortAddresses \/ addr \in EXCLUDED_ADDRESSES

\* alchemyService: isExcluded
isExcludedCaseSensitive(addr) == addr \in EVM_EXCLUDED_ADDRESSES
isExcluded(addr) == toLowerCase(addr) \in EVM_EXCLUDED_ADDRESSES

Excluded(f, addr) ==
    IF f = "solana" THEN isExcludedAddress(addr) ELSE isExcluded(addr)

Range(seq) == {seq[k] : k \in 1..Len(seq)}

\* A result of an awaited call: a value, or an exception that propagates.
Returned(v) == [raised |-> FALSE, value |-> v]
Thrown(v) == [raised |-> TRUE, value |-> v]

\* The four network reads. `ok` is whether the provider answered; the catch
\* block of each turns a failure into the empty value.
fetchWalletTransactionsRethrows(ok, data) ==
    IF ok THEN Returned(data) ELSE Thrown(<<>>)
fetchWalletTransactions(ok, data) ==
    IF ok THEN Returned(data) ELSE Returned(<<>>)

getWalletTokenBalance(ok, bal) ==
    IF ok THEN Returned(bal) ELSE Returned(0)

getAssetTransfers(ok, data) ==
    IF ok THEN Returned(data) ELSE Returned(<<>>)

getTokenBalance(ok, bal) ==
    IF ok THEN Returned(bal) ELSE Returned(0)

\* The activity of a wallet, as far as the trace reads it: the recipients of
\* the target token's movements that the wallet sent, in the provider's order.
RawOutgoing(f, most) == UNION {[1..n -> Addresses(f)] : n \in 0..most}

BalanceValues == {7}

\* parseTransfers, outgoing side: self-transfers and records with an excluded
\* side are dropped.
parseTransfers(raw, wallet) ==
    SelectSeq(raw, LAMBDA to : /\ to # wallet
                               /\ ~isExcludedAddress(wallet)
                               /\ ~isExcludedAddress(to))

\* classifyTransfers, outgoing side: every record sent by the wallet is kept.
classifyTransfers(raw, wallet) == raw

WalletNodeDepthZero(addr, isSeed, depth, outgoing, balance) ==
    [address |-> addr, isSeedWallet |-> isSeed, traceDepth |-> 0,
     outgoingTransfers |-> outgoing, currentBalance |-> balance]
WalletNode(addr, isSeed, depth, outgoing, balance) ==
    [address |-> addr, isSeedWallet |-> isSeed, traceDepth |-> depth,
     outgoingTransfers |-> outgoing, currentBalance |-> balance]

\* Not program state: the reads the provider failed, each with the position in
\* `results` of the node it was made for.
FailedRead(position, kind) == [node |-> position, read |-> kind]

\* fetchFullWalletData / fetchTransferWalletData / fetchEvmWalletData
FetchWalletData(f, wallet, isSeed, depth, txOk, raw, balOk, bal) ==
    LET txs == IF f = "solana" THEN fetchWalletTransactions(txOk, raw)
               ELSE getAssetTransfers(txOk, raw)
        b == IF f = "solana" THEN getWalletTokenBalance(balOk, bal)
             ELSE getTokenBalance(balOk, bal)
        outgoing == IF f = "solana" THEN parseTransfers(txs.value, wallet)
                    ELSE classifyTransfers(txs.value, wallet)
    IN  IF txs.raised \/ b.raised
        THEN Thrown(WalletNode(wallet, isSeed, depth, <<>>, 0))
        ELSE Returned(WalletNode(wallet, isSeed, depth, outgoing, b.value))

\* Array.prototype.slice(0, n)
Slice0(seq, n) ==
    SubSeq(seq, 1, IF n < 0 THEN Max(Len(seq) + n, 0) ELSE Min(n, Len(seq)))

RECURSIVE Flatten(_)
Flatten(nodes) ==
    IF nodes = <<>> THEN <<>>
    ELSE Head(nodes).outgoingTransfers \o Flatten(Tail(nodes))

\* [...set]: a Set iterates in insertion order and ignores a repeated add.
RECURSIVE InsertionOrder(_, _)
InsertionOrder(seq, acc) ==
    IF seq = <<>> THEN acc
    ELSE InsertionOrder(Tail(seq),
                        IF Head(seq) \in Range(acc) THEN acc
                        ELSE Append(acc, Head(seq)))

\* levelNAddresses: recipients of the source nodes that are neither known nor
\* excluded.
LevelAddresses(f, sources, known) ==
    InsertionOrder(
        SelectSeq(Flatten(sources),
                  LAMBDA to : to \notin known /\ ~Excluded(f, to)),
        <<>>)

\* levelNArray
LevelArray(f, sources, known, count) ==
    LET found == LevelAddresses(f, sources, known)
    IN  IF f = "solana"
        THEN Slice0(found, Min(Len(found), MAX_TOTAL_WALLETS - count))
        ELSE Slice0(found, MAX_TOTAL_WALLETS - count)

AtDepth(d) == SelectSeq(results, LAMBDA r : r.traceDepth = d)

\* Seed lists. Every list of at most MaxShortSeeds addresses, up to renaming of
\* the ordinary wallets (they make their first appearance in the order w1, w2,
\* ...), repeated and excluded seeds included; and the lists w1, ..., wk of
\* distinct wallets up to MaxSeeds, which is more than MAX_TOTAL_WALLETS.
FirstUseInOrder(s) ==
    \A p \in 1..Len(s) : \A k \in 2..NumWallets :
        s[p] = WalletNames[k] =>
            \E q \in 1..(p - 1) : s[q] = WalletNames[k - 1]

SeedLists(f) ==
    {s \in UNION {[1..n -> Addresses(f)] : n \in 0..MaxShortSeeds} :
        FirstUseInOrder(s)}
    \cup {[k \in 1..n |-> WalletNames[k]] : n \in 1..MaxSeeds}

TraceInputs ==
    /\ flavor \in Flavors
    /\ apiKey \in BOOLEAN
    /\ seedAddresses \in SeedLists(flavor)
    /\ tpc = "start"
    /\ idx = 0
    /\ knownAddresses = {}
    /\ results = <<>>
    /\ levelArray = <<>>
    /\ balances = <<>>
    /\ fetchCount = 0
    /\ recordsSeen = 0
    /\ failedReads = <<>>

TraceIdle ==
    /\ flavor = "solana"
    /\ apiKey = FALSE
    /\ seedAddresses = <<>>
    /\ tpc = "idle"
    /\ idx = 0
    /\ knownAddresses = {}
    /\ results = <<>>
    /\ levelArray = <<>>
    /\ balances = <<>>
    /\ fetchCount = 0
    /\ recordsSeen = 0
    /\ failedReads = <<>>

traceInput == <<flavor, apiKey, seedAddresses>>

\* if (!apiKey) return [];
TraceStart ==
    /\ tpc = "start"
    /\ tpc' = IF apiKey THEN "level0" ELSE "done"
    /\ UNCHANGED <<traceInput, idx, knownAddresses, results, levelArray,
                   balances, fetchCount, recordsSeen, failedReads>>
    /\ UNCHANGED <<scoreVars, scanVars, fetchVars>>

\* Level 0, an excluded seed: continue.
Level0Skip ==
    /\ tpc = "level0"
    /\ idx < Len(seedAddresses)
    /\ Excluded(flavor, seedAddresses[idx + 1])
    /\ idx' = idx + 1
    /\ UNCHANGED <<traceInput, tpc, knownAddresses, results, levelArray,
                   balances, fetchCount, recordsSeen, failedReads>>
    /\ UNCHANGED <<scoreVars, scanVars, fetchVars>>

\* The body shared by the three fetching loops: knownAddresses.add(wallet),
\* the two reads of the wallet, results.push.
FetchAndPush(wallet, isSeed, depth) ==
    \E txOk \in BOOLEAN, balOk \in BOOLEAN, bal \in BalanceValues :
    \E raw \in RawOutgoing(flavor, IF txOk
                                    THEN Min(MaxOut, MaxRecords - recordsSeen)
                                    ELSE 0) :
        LET r == FetchWalletData(flavor, wallet, isSeed, depth,
                                 txOk, raw, balOk, bal)
        IN  /\ knownAddresses' = knownAddresses \cup {wallet}
            /\ fetchCount' = fetchCount + 2
            /\ recordsSeen' = recordsSeen + Len(raw)
            /\ failedReads' = failedReads
                   \o (IF txOk THEN <<>>
                       ELSE <<FailedRead(Len(results) + 1, "activity")>>)
                   \o (IF balOk THEN <<>>
                       ELSE <<FailedRead(Len(results) + 1, "balance")>>)
            /\ Len(failedReads') <= MaxFailures
            /\ IF r.raised
               THEN tpc' = "raised" /\ UNCHANGED <<results, idx>>
               ELSE /\ results' = Append(results, r.value)
                    /\ idx' = idx + 1
                    /\ UNCHANGED tpc

\* Level 0, any other seed.
Level0Fetch ==
    /\ tpc = "level0"
    /\ idx < Len(seedAddresses)
    /\ ~Excluded(flavor, seedAddresses[idx + 1])
    /\ FetchAndPush(seedAddresses[idx + 1], TRUE, 0)
    /\ UNCHANGED <<traceInput, levelArray, balances>>
    /\ UNCHANGED <<scoreVars, scanVars, fetchVars>>

\* End of the level-0 loop: level1Addresses is collected from every node of
\* results, and sliced.
Level0Done ==
    /\ tpc = "level0"
    /\ idx = Len(seedAddresses)
    /\ levelArray' = LevelArray(flavor, results, knownAddresses, Len(results))
    /\ tpc' = "level1"
    /\ idx' = 0
    /\ UNCHANGED <<traceInput, knownAddresses, results, balances, fetchCount,
                   recordsSeen, failedReads>>
    /\ UNCHANGED <<scoreVars, scanVars, fetchVars>>

LevelName(d) == IF d = 1 THEN "level1" ELSE "level2"

\* Levels 1 and 2: if (results.length >= MAX_TOTAL_WALLETS) break; else fetch.
LevelFetch(d) ==
    /\ tpc = LevelName(d)
    /\ idx < Len(levelArray)
    /\ Len(results) < MAX_TOTAL_WALLETS
    /\ FetchAndPush(levelArray[idx + 1], FALSE, d)
    /\ UNCHANGED <<traceInput, levelArray, balances>>
    /\ UNCHANGED <<scoreVars, scanVars, fetchVars>>

LoopOverNever(array) == FALSE
LoopOver(array) == idx = Len(array) \/ Len(results) >= MAX_TOTAL_WALLETS

\* End of the level-1 loop: level2Array from the nodes of depth 1.
Level1Done ==
    /\ tpc = "level1"
    /\ LoopOver(levelArray)
    /\ levelArray' = LevelArray(flavor, AtDepth(1), knownAddresses, Len(results))
    /\ tpc' = "level2"
    /\ idx' = 0
    /\ UNCHANGED <<traceInput, knownAddresses, results, balances, fetchCount,
                   recordsSeen, failedReads>>
    /\ UNCHANGED <<scoreVars, scanVars, fetchVars>>

\* End of the level-2 loop: level3Array from the nodes of depth 2; the batch is
\* entered only when it is not empty.
Level2Done ==
    /\ tpc = "level2"
    /\ LoopOver(levelArray)
    /\ LET level3Array ==
               LevelArray(flavor, AtDepth(2), knownAddresses, Len(results))
       IN  /\ levelArray' = level3Array
           /\ tpc' = IF Len(level3Array) > 0 THEN "batch3" ELSE "done"
    /\ idx' = 0
    /\ UNCHANGED <<traceInput, knownAddresses, results, balances, fetchCount,
                   recordsSeen, failedReads>>
    /\ UNCHANGED <<scoreVars, scanVars, fetchVars>>

\* batchGetBalances / batchGetEvmBalances: one group of at most batchSize
\* balance reads, all awaited before the next group.
Level3Batch ==
    /\ tpc = "batch3"
    /\ idx < Len(levelArray)
    /\ LET batch == SubSeq(levelArray, idx + 1,
                           Min(idx + batchSize, Len(levelArray)))
       IN  \E oks \in [1..Len(batch) -> BOOLEAN],
              bals \in [1..Len(batch) -> BalanceValues] :
               LET read(k) == IF flavor = "solana"
                              THEN getWalletTokenBalance(oks[k], bals[k])
                              ELSE getTokenBalance(oks[k], bals[k])
                   failed == SelectSeq([k \in 1..Len(batch) |-> k],
                                       LAMBDA k : ~oks[k])
               IN  /\ fetchCount' = fetchCount + Len(batch)
                   /\ failedReads' = failedReads \o
                          [j \in 1..Len(failed) |->
                              FailedRead(Len(results) + idx + failed[j],
                                         "balance")]
                   /\ Len(failedReads') <= MaxFailures
                   /\ IF \E k \in 1..Len(batch) : read(k).raised
                      THEN tpc' = "raised" /\ UNCHANGED <<balances, idx>>
                      ELSE /\ balances' = balances \o
                                 [k \in 1..Len(batch) |->
                                     [addr |-> batch[k],
                                      balance |-> read(k).value]]
                           /\ IF idx + batchSize < Len(levelArray)
                              THEN idx' = idx + batchSize /\ UNCHANGED tpc
                              ELSE idx' = 0 /\ tpc' = "push3"
    /\ UNCHANGED <<traceInput, knownAddresses, results, levelArray,
                   recordsSeen>>
    /\ UNCHANGED <<scoreVars, scanVars, fetchVars>>

\* for (const [addr, balance] of level3Balances): a balance-only node.
Level3Push ==
    /\ tpc = "push3"
    /\ idx < Len(balances)
    /\ Len(results) < MAX_TOTAL_WALLETS
    /\ knownAddresses' = knownAddresses \cup {balances[idx + 1].addr}
    /\ results' = Append(results,
                         WalletNode(balances[idx + 1].addr, FALSE, 3, <<>>,
                                    balances[idx + 1].balance))
    /\ idx' = idx + 1
    /\ UNCHANGED <<traceInput, tpc, levelArray, balances, fetchCount,
                   recordsSeen, failedReads>>
    /\ UNCHANGED <<scoreVars, scanVars, fetchVars>>

\* return results;
Level3Done ==
    /\ tpc = "push3"
    /\ LoopOver(balances)
    /\ tpc' = "done"
    /\ UNCHANGED <<traceInput, idx, knownAddresses, results, levelArray,
                   balances, fetchCount, recordsSeen, failedReads>>
    /\ UNCHANGED <<scoreVars, scanVars, fetchVars>>

----------------------------------------------------------------------------
(* Forensic provider adapter (moralisService)                              *)

NoForensics ==
    [present |-> FALSE, holders |-> <<>>, block0Transfers |-> <<>>,
     earlyTransfers |-> <<>>, creationBlock |-> 0, chain |-> ""]

ForensicData(holders, block0Transfers, earlyTransfers, creationBlock, chain) ==
    [present |-> TRUE, holders |-> holders,
     block0Transfers |-> block0Transfers, earlyTransfers |-> earlyTransfers,
     creationBlock |-> creationBlock, chain |-> chain]

EVM_CHAINS == {"ethereum", "bsc", "base", "polygon", "arbitrum", "optimism"}

\* Array.prototype.sort((a, b) => a.blockNumber - b.blockNumber), stable.
RECURSIVE SortByBlock(_)
SortByBlock(txs) ==
    IF txs = <<>> THEN <<>>
    ELSE LET last == txs[Len(txs)]
             front == SortByBlock(SubSeq(txs, 1, Len(txs) - 1))
         IN  SelectSeq(front, LAMBDA t : t.blockNumber <= last.blockNumber)
             \o <<last>>
             \o SelectSeq(front, LAMBDA t : t.blockNumber > last.blockNumber)

RECURSIVE Pow10(_)
Pow10(n) == IF n = 0 THEN 1 ELSE 10 * Pow10(n - 1)

normalizeSolanaHolders(holders) ==
    LET kept == Slice0(holders, 20)
    IN  [k \in 1..Len(kept) |->
            [address |-> toLowerCase(kept[k].ownerAddress),
             balance |-> kept[k].balanceFormatted,
             percentage |-> kept[k].percentageRelativeToTotalSupply,
             usdValue |-> kept[k].usdValue]]

\* A provider response: whether each of the two requests was answered, what it
\* carried, and whether the body has the documented shape (if not, reading it
\* throws inside the adapter's outer try block).
ProviderResponse(transfersOk, transfers, holdersOk, holders, wellFormed) ==
    [transfersOk |-> transfersOk, transfers |-> transfers,
     holdersOk |-> holdersOk, holders |-> holders, wellFormed |-> wellFormed]

fetchSolanaForensics(resp) ==
    LET swaps == IF resp.transfersOk THEN resp.transfers ELSE <<>>
        holders == IF resp.holdersOk THEN resp.holders ELSE <<>>
        normalizedSwaps ==
            SortByBlock([k \in 1..Len(swaps) |->
                [blockNumber |-> swaps[k].blockNumber,
                 buyerAddress |-> swaps[k].walletAddress,
                 sellerAddress |-> "",
                 tokenAmount |-> swaps[k].amount,
                 usdValue |-> swaps[k].totalValueUsd,
                 transactionType |-> swaps[k].transactionType]])
        buySwaps ==
            SelectSeq(normalizedSwaps, LAMBDA t : t.transactionType = "buy")
        creationSlot == buySwaps[1].blockNumber
    IN  IF swaps = <<>> /\ holders = <<>>
        THEN Returned(ForensicData(<<>>, <<>>, <<>>, 0, "solana"))
        ELSE IF ~resp.wellFormed THEN Returned(NoForensics)
        ELSE IF buySwaps = <<>>
        THEN Returned(ForensicData(normalizeSolanaHolders(holders),
                                   <<>>, <<>>, 0, "solana"))
        ELSE Returned(ForensicData(
                 normalizeSolanaHolders(holders),
                 SelectSeq(buySwaps,
                           LAMBDA t : t.blockNumber <= creationSlot + 4),
                 SelectSeq(buySwaps,
                           LAMBDA t : t.blockNumber <= creationSlot + 20),
                 creationSlot, "solana"))

fetchEvmForensics(chainId, resp) ==
    LET rawTransfers == resp.transfers
        rawHolders == Slice0(resp.holders, 20)
        holders ==
            [k \in 1..Len(rawHolders) |->
                [address |-> toLowerCase(rawHolders[k].owner_address),
                 balance |-> rawHolders[k].balance
                                 \div Pow10(rawHolders[k].token_decimals),
                 percentage |-> rawHolders[k].percentage_relative,
                 usdValue |-> 0]]
        normalizedTransfers ==
            [k \in 1..Len(rawTransfers) |->
                [blockNumber |-> rawTransfers[k].block_number,
                 buyerAddress |-> toLowerCase(rawTransfers[k].to_address),
                 sellerAddress |-> toLowerCase(rawTransfers[k].from_address),
                 tokenAmount |-> rawTransfers[k].value
                                     \div Pow10(rawTransfers[k].token_decimals),
                 usdValue |-> 0,
                 transactionType |-> "transfer"]]
        creationBlock == normalizedTransfers[1].blockNumber
    IN  IF ~(resp.transfersOk /\ resp.holdersOk) \/ ~resp.wellFormed
        THEN Returned(NoForensics)
        ELSE IF normalizedTransfers = <<>>
        THEN Returned(ForensicData(holders, <<>>, <<>>, 0, chainId))
        ELSE Returned(ForensicData(
                 holders,
                 SelectSeq(normalizedTransfers,
                           LAMBDA t : t.blockNumber <= creationBlock + 2),
                 SelectSeq(normalizedTransfers,
                           LAMBDA t : t.blockNumber <= creationBlock + 5),
                 creationBlock, chainId))

getTokenForensics(key, chainId, resp) ==
    IF ~key THEN Returned(NoForensics)
    ELSE IF chainId = "solana" THEN fetchSolanaForensics(resp)
    ELSE IF chainId \in EVM_CHAINS THEN fetchEvmForensics(chainId, resp)
    ELSE Returned(NoForensics)

\* goPlus: checkTokenSecurity. `data` is absent when the audit has no entry
\* for the token.
checkTokenSecurity(ok, data) ==
    IF ok THEN Returned(data) ELSE Returned(NoSecurity)

\* dexScreener: searchAllPairs
searchAllPairs(ok, pairs) == IF ok THEN pairs ELSE <<>>

----------------------------------------------------------------------------
(* Analyzer (scanEngine)                                                   *)

ZeroAddress == "0x0000000000000000000000000000000000000000"
ZERO_ADDRESSES ==
    {ZeroAddress, "0x0000000000000000000000000000000000000001",
     SystemProgram, ""}
isZeroAddress(addr) == addr \in ZERO_ADDRESSES

RECURSIVE SumSeq(_)
SumSeq(numbers) ==
    IF numbers = <<>> THEN 0 ELSE Head(numbers) + SumSeq(Tail(numbers))

EmptyAnalysisFullyConcentrated ==
    [sniperCount |-> 0, block0Volume |-> 0, earlyVolume |-> 0,
     bundleVolumeUSD |-> 0, totalBundlePercentage |-> 0,
     holdingConcentration |-> 100, uniqueFundingSources |-> 0,
     hasBundleCluster |-> FALSE, block0Buyers |-> <<>>]
EmptyAnalysis ==
    [sniperCount |-> 0, block0Volume |-> 0, earlyVolume |-> 0,
     bundleVolumeUSD |-> 0, totalBundlePercentage |-> 0,
     holdingConcentration |-> 0, uniqueFundingSources |-> 0,
     hasBundleCluster |-> FALSE, block0Buyers |-> <<>>]

\* The two early returns of the forEach bodies of steps 1 and 2: a transfer
\* is counted unless its seller is a zero address (examined on EVM chains
\* only) or its buyer is empty or a zero address.
CountedWhateverSeller(tx, isSolana) ==
    ~(tx.buyerAddress = "" \/ isZeroAddress(tx.buyerAddress))
Counted(tx, isSolana) ==
    /\ ~(~isSolana /\ isZeroAddress(tx.sellerAddress))
    /\ ~(tx.buyerAddress = "" \/ isZeroAddress(tx.buyerAddress))

\* Step 3 on Solana: 3 or more block-0 buyers, or else 5 or more early buyers.
SlotBundle(block0Buyers) == Len(block0Buyers) >= 3
EarlyBundleFromFour(block0Buyers, earlyBuyers) ==
    ~SlotBundle(block0Buyers) /\ Cardinality(earlyBuyers) >= 4
EarlyBundle(block0Buyers, earlyBuyers) ==
    ~SlotBundle(block0Buyers) /\ Cardinality(earlyBuyers) >= 5

\* Step 3 on EVM chains: sourceToRecipients, and whether some source has 3 or
\* more recipients.
FanOutCountingMint(earlyTransfers) ==
    \E k \in 1..Len(earlyTransfers) :
        Cardinality({earlyTransfers[j].buyerAddress : j \in
                        {i \in 1..Len(earlyTransfers) :
                            /\ earlyTransfers[i].sellerAddress
                                   = earlyTransfers[k].sellerAddress
                            /\ earlyTransfers[i].buyerAddress # ""}}) >= 3
FanOut(earlyTransfers) ==
    LET Recipients(seller) ==
            {earlyTransfers[k].buyerAddress : k \in
                {j \in 1..Len(earlyTransfers) :
                    /\ earlyTransfers[j].sellerAddress = seller
                    /\ ~isZeroAddress(seller)
                    /\ earlyTransfers[j].buyerAddress # ""
                    /\ ~isZeroAddress(earlyTransfers[j].buyerAddress)}}
    IN  \E k \in 1..Len(earlyTransfers) :
            Cardinality(Recipients(earlyTransfers[k].sellerAddress)) >= 3

\* block0Buyers is a Set; the model keeps it as the sequence of its members in
\* insertion order, which is the order [...block0Buyers] hands to the tracer.
\* totalBundlePercentage is kept in whole percent.
analyzeForensics(f, priceUsd, fdv, chainId) ==
    LET isSolana == chainId = "solana"
        Usd(tx) == IF tx.usdValue > 0 THEN tx.usdValue
                   ELSE tx.tokenAmount * priceUsd
        block0 == SelectSeq(f.block0Transfers,
                            LAMBDA tx : Counted(tx, isSolana))
        early == SelectSeq(f.earlyTransfers, LAMBDA tx : Counted(tx, isSolana))
        block0Buyers ==
            InsertionOrder([k \in 1..Len(block0) |-> block0[k].buyerAddress],
                           <<>>)
        block0Volume == SumSeq([k \in 1..Len(block0) |-> Usd(block0[k])])
        earlyVolume == SumSeq([k \in 1..Len(early) |-> Usd(early[k])])
        earlyBuyers == {early[k].buyerAddress : k \in 1..Len(early)}
        fundingSources ==
            {early[k].sellerAddress : k \in
                {j \in 1..Len(early) :
                    /\ early[j].sellerAddress # ""
                    /\ ~isZeroAddress(early[j].sellerAddress)}}
        hasBundleCluster ==
            IF isSolana
            THEN \/ SlotBundle(block0Buyers)
                 \/ EarlyBundle(block0Buyers, earlyBuyers)
            ELSE FanOut(f.earlyTransfers)
    IN  IF ~f.present THEN EmptyAnalysis
        ELSE [sniperCount |-> Len(block0Buyers),
              block0Volume |-> block0Volume,
              earlyVolume |-> earlyVolume,
              bundleVolumeUSD |->
                  IF isSolana /\ EarlyBundle(block0Buyers, earlyBuyers)
                  THEN earlyVolume ELSE block0Volume,
              totalBundlePercentage |->
                  IF fdv > 0 THEN (block0Volume * 100) \div fdv ELSE 0,
              holdingConcentration |->
                  SumSeq([k \in 1..Len(f.holders) |-> f.holders[k].percentage]),
              uniqueFundingSources |->
                  IF isSolana THEN Cardinality(earlyBuyers)
                  ELSE Cardinality(fundingSources),
              hasBundleCluster |-> hasBundleCluster,
              block0Buyers |-> block0Buyers]

buildWalletListBuyerFirst(f, block0Buyers, priceUsd, chainId) ==
    LET kept == Slice0(f.holders, 20)
    IN  IF ~f.present \/ f.holders = <<>> THEN <<>>
        ELSE [k \in 1..Len(kept) |->
                LET isBundler == kept[k].address \in Range(block0Buyers)
                IN  [address |-> kept[k].address,
                     isBundler |-> isBundler,
                     fundingSource |-> IF isBundler THEN "Bundle Buyer"
                                       ELSE IF k = 1 THEN "Deployer"
                                       ELSE "Unknown",
                     holdingAmount |-> IF chainId = "solana"
                                       THEN kept[k].usdValue
                                       ELSE kept[k].balance * priceUsd,
                     percentage |-> kept[k].percentage]]

buildWalletList(f, block0Buyers, priceUsd, chainId) ==
    LET kept == Slice0(f.holders, 20)
    IN  IF ~f.present \/ f.holders = <<>> THEN <<>>
        ELSE [k \in 1..Len(kept) |->
                LET isBundler == kept[k].address \in Range(block0Buyers)
                IN  [address |-> kept[k].address,
                     isBundler |-> isBundler,
                     fundingSource |-> IF k = 1 THEN "Deployer"
                                       ELSE IF isBundler THEN "Bundle Buyer"
                                       ELSE "Unknown",
                     holdingAmount |-> IF chainId = "solana"
                                       THEN kept[k].usdValue
                                       ELSE kept[k].balance * priceUsd,
                     percentage |-> kept[k].percentage]]

PlaceholderWallet ==
    [address |-> "No holder data available", isBundler |-> FALSE,
     fundingSource |-> "N/A", holdingAmount |-> 0, percentage |-> 0]

ThreatTypeNeedsVolume(sec, ar) ==
    IF sec.present /\ sec.is_honeypot THEN "DISTRIBUTION_PHASE"
    ELSE IF ar.hasBundleCluster THEN "ACCUMULATION_PHASE"
    ELSE IF ar.sniperCount > 5 /\ ar.block0Volume > 5000
    THEN "ACCUMULATION_PHASE"
    ELSE "ORGANIC_GROWTH"
ThreatType(sec, ar) ==
    IF sec.present /\ sec.is_honeypot THEN "DISTRIBUTION_PHASE"
    ELSE IF ar.hasBundleCluster THEN "ACCUMULATION_PHASE"
    ELSE IF ar.sniperCount > 5 /\ ar.block0Volume > 5000
    THEN "ACCUMULATION_PHASE"
    ELSE IF ar.sniperCount > 3 THEN "ACCUMULATION_PHASE"
    ELSE "ORGANIC_GROWTH"

RiskLevel(score) ==
    IF score >= 80 THEN "SAFE"
    ELSE IF score >= 50 THEN "CAUTION"
    ELSE IF score >= 20 THEN "DANGER"
    ELSE "CRITICAL"

\* bestPair.liquidity?.usd || 0
LiquidityOf(pair) == IF pair.liquidity.present THEN pair.liquidity.usd ELSE 0

\* The `analysis` object of runFullScan, with bundleControl?.x || 0 for the
\* fields taken from the cluster-control result.
AnalysisOf(ar, bc) ==
    [totalBundlePercentage |-> ar.totalBundlePercentage,
     bundleWalletCount |-> ar.sniperCount,
     holdingConcentration |-> ar.holdingConcentration,
     uniqueFundingSources |-> ar.uniqueFundingSources,
     bundleVolumeUSD |-> ar.bundleVolumeUSD,
     clusterCount |-> IF bc.present THEN bc.clusterCount ELSE 0,
     lpImpactRatio |-> IF bc.present THEN bc.lpImpactRatio ELSE 0,
     totalBundledSupplyPercent |->
         IF bc.present THEN bc.totalBundledSupplyPercent ELSE 0,
     block0Volume |-> ar.block0Volume,
     block1Volume |-> ar.earlyVolume - ar.block0Volume]

buildEmptyResult ==
    [score |-> 0, riskLevel |-> "CAUTION", threatType |-> "UNKNOWN",
     chainId |-> "unknown", forensicsStatus |-> "MISSING_KEY",
     scoreBreakdown |-> <<>>, wallets |-> <<>>,
     analysis |-> AnalysisOf(EmptyAnalysis, NoBundleControl),
     bundleControl |-> NoBundleControl]

NotReturned == [buildEmptyResult EXCEPT !.riskLevel = "", !.threatType = ""]

\* Sections E to I of runFullScan and the returned object.
Assemble(pair, sec, f, status, ar, bc) ==
    LET wallets == buildWalletList(f, ar.block0Buyers, pair.priceUsd,
                                   pair.chainId)
        scored == calculateScore(LiquidityOf(pair), sec, AnalysisOf(ar, bc), bc)
    IN  [score |-> scored.score,
         riskLevel |-> RiskLevel(scored.score),
         threatType |-> ThreatType(sec, ar),
         chainId |-> pair.chainId,
         forensicsStatus |-> status,
         scoreBreakdown |-> scored.breakdown,
         wallets |-> IF Len(wallets) > 0 THEN wallets
                     ELSE <<PlaceholderWallet>>,
         analysis |-> AnalysisOf(ar, bc),
         bundleControl |-> bc]

----------------------------------------------------------------------------
(* Scan driver (scanEngine: runFullScan)                                   *)

\* One chain of each kind: Solana, an EVM chain, a chain without forensics.
ScanChains == {"solana", "ethereum", "tron"}

\* DexPairData, as far as the scan reads it. `liquidity` may be missing.
NoPair ==
    [present |-> FALSE, chainId |-> "unknown",
     liquidity |-> [present |-> FALSE, usd |-> 0], priceUsd |-> 0, fdv |-> 0]

PairValues ==
    [present : {TRUE}, chainId : ScanChains,
     liquidity : {[present |-> FALSE, usd |-> 0], [present |-> TRUE, usd |-> 500],
                  [present |-> TRUE, usd |-> 50000]},
     priceUsd : {2}, fdv : {0, 100000}]

ScanSecurityValues ==
    {NoSecurity,
     [present |-> TRUE, is_honeypot |-> TRUE, is_mintable |-> FALSE,
      buy_tax |-> 0, sell_tax |-> 0, cannot_sell_all |-> FALSE],
     [present |-> TRUE, is_honeypot |-> FALSE, is_mintable |-> FALSE,
      buy_tax |-> 0, sell_tax |-> 0, cannot_sell_all |-> FALSE],
     [present |-> TRUE, is_honeypot |-> FALSE, is_mintable |-> TRUE,
      buy_tax |-> 11, sell_tax |-> 11, cannot_sell_all |-> TRUE]}

\* One entry of the Solana swap history.
Swap(wallet, slot, type, usd) ==
    [walletAddress |-> wallet, blockNumber |-> slot, transactionType |-> type,
     amount |-> 1000, totalValueUsd |-> usd]

SolanaSwapLists ==
    {<<>>,
     <<Swap(SolanaBuyers[1], 100, "sell", 50)>>,
     <<Swap(SolanaBuyers[2], 105, "buy", 300),
       Swap(SolanaBuyers[1], 100, "buy", 200)>>,
     <<Swap(SolanaBuyers[1], 100, "buy", 2000),
       Swap(SolanaBuyers[2], 100, "buy", 2000),
       Swap(SolanaBuyers[3], 104, "buy", 2000),
       Swap(SolanaBuyers[4], 120, "buy", 6000)>>}

SolanaHolderLists ==
    {<<>>,
     <<[ownerAddress |-> SolanaWhale, balanceFormatted |-> 5000,
        percentageRelativeToTotalSupply |-> 55, usdValue |-> 10000],
       [ownerAddress |-> SolanaBuyers[1], balanceFormatted |-> 1000,
        percentageRelativeToTotalSupply |-> 30, usdValue |-> 2000]>>}

\* One entry of the ERC-20 transfer history; amounts carry one decimal.
Transfer(to, from, block, value) ==
    [to_address |-> to, from_address |-> from, block_number |-> block,
     value |-> value, token_decimals |-> 1]

EvmTransferLists ==
    {<<>>,
     <<Transfer(EvmBuyers[1], EvmDeployer, 50, 10000)>>,
     <<Transfer(EvmDeployer, ZeroAddress, 50, 1000000),
       Transfer(EvmBuyers[1], EvmDeployer, 50, 10000),
       Transfer(EvmBuyers[2], EvmDeployer, 51, 10000),
       Transfer(EvmBuyers[3], EvmDeployer, 52, 10000),
       Transfer(EvmBuyers[4], EvmDeployer, 55, 10000),
       Transfer(EvmOther, EvmBuyers[1], 60, 10000)>>}

EvmHolderLists ==
    {<<>>,
     <<[owner_address |-> EvmDeployer, balance |-> 500000,
        token_decimals |-> 1, percentage_relative |-> 55],
       [owner_address |-> EvmBuyers[1], balance |-> 10000,
        token_decimals |-> 1, percentage_relative |-> 30]>>}

ForensicResponses(chainId) ==
    IF chainId = "solana"
    THEN {ProviderResponse(tOk, t, hOk, h, wf) :
              tOk \in BOOLEAN, t \in SolanaSwapLists, hOk \in BOOLEAN,
              h \in SolanaHolderLists, wf \in BOOLEAN}
    ELSE {ProviderResponse(tOk, t, hOk, h, wf) :
              tOk \in BOOLEAN, t \in EvmTransferLists, hOk \in BOOLEAN,
              h \in EvmHolderLists, wf \in BOOLEAN}

\* bundleAnalyzer: what analyzeBundleClusters may return.
ClusterResults ==
    {[present |-> TRUE, clusterCount |-> 0, lpImpactRatio |-> 0,
      totalBundledSupplyPercent |-> 0],
     [present |-> TRUE, clusterCount |-> 1, lpImpactRatio |-> 16,
      totalBundledSupplyPercent |-> 31]}

\* The try block of section D2: the tracer is awaited, then the clusters are
\* labelled; the catch block logs and leaves bundleControl undefined.
DeepAnalysisUncaught(traceOk, labelOk, bc) ==
    IF traceOk /\ labelOk THEN Returned(bc) ELSE Thrown(NoBundleControl)
DeepAnalysis(traceOk, labelOk, bc) ==
    IF traceOk /\ labelOk THEN Returned(bc) ELSE Returned(NoBundleControl)

ScanInputs ==
    /\ moralisKey \in BOOLEAN
    /\ heliusKey \in BOOLEAN
    /\ alchemyKey \in BOOLEAN
    /\ spc = "pairs"
    /\ bestPair = NoPair
    /\ securityData = NoSecurity
    /\ forensics = NoForensics
    /\ forensicsStatus = "NOT_SUPPORTED"
    /\ analysisResult = EmptyAnalysis
    /\ scanResult = NotReturned
    /\ calls = {}
    /\ failures = {}

ScanIdle ==
    /\ moralisKey = FALSE
    /\ heliusKey = FALSE
    /\ alchemyKey = FALSE
    /\ spc = "idle"
    /\ bestPair = NoPair
    /\ securityData = NoSecurity
    /\ forensics = NoForensics
    /\ forensicsStatus = "NOT_SUPPORTED"
    /\ analysisResult = EmptyAnalysis
    /\ scanResult = NotReturned
    /\ calls = {}
    /\ failures = {}

scanKeys == <<moralisKey, heliusKey, alchemyKey>>

\* A. searchAllPairs; an empty list returns buildEmptyResult at once.
FetchPairs ==
    /\ spc = "pairs"
    /\ \E ok \in BOOLEAN, pair \in PairValues, found \in BOOLEAN :
           LET allDexPairs ==
                   searchAllPairs(ok, IF found THEN <<pair>> ELSE <<>>)
           IN  /\ calls' = calls \cup {"pairs"}
               /\ failures' = IF ok THEN failures ELSE failures \cup {"pairs"}
               /\ IF Len(allDexPairs) = 0
                  THEN /\ scanResult' = buildEmptyResult
                       /\ spc' = "returned"
                       /\ UNCHANGED bestPair
                  ELSE /\ bestPair' = allDexPairs[1]
                       /\ spc' = "security"
                       /\ UNCHANGED scanResult
    /\ UNCHANGED <<scanKeys, securityData, forensics, forensicsStatus,
                   analysisResult>>
    /\ UNCHANGED <<scoreVars, traceVars, fetchVars>>

\* B. checkTokenSecurity inside try / catch.
CheckSecurity ==
    /\ spc = "security"
    /\ \E ok \in BOOLEAN, data \in ScanSecurityValues :
           LET r == checkTokenSecurity(ok, data)
           IN  /\ securityData' = IF r.raised THEN NoSecurity ELSE r.value
               /\ failures' = IF ok THEN failures
                              ELSE failures \cup {"security"}
    /\ calls' = calls \cup {"security"}
    /\ spc' = "forensics"
    /\ UNCHANGED <<scanKeys, bestPair, forensics, forensicsStatus,
                   analysisResult, scanResult>>
    /\ UNCHANGED <<scoreVars, traceVars, fetchVars>>

\* C and D. The forensic fetch, the status it leaves, and analyzeForensics.
FetchForensics ==
    /\ spc = "forensics"
    /\ IF ~moralisKey
       THEN /\ forensicsStatus' = "MISSING_KEY"
            /\ UNCHANGED <<forensics, calls, failures>>
       ELSE \E resp \in ForensicResponses(bestPair.chainId) :
               LET r == getTokenForensics(moralisKey, bestPair.chainId, resp)
                   requested == bestPair.chainId \in EVM_CHAINS \cup {"solana"}
               IN  /\ forensics' = IF r.raised THEN NoForensics ELSE r.value
                   /\ forensicsStatus' =
                          IF r.raised THEN "ERROR"
                          ELSE IF r.value.present THEN "SUCCESS"
                          ELSE "NOT_SUPPORTED"
                   /\ calls' = calls \cup {"forensics"}
                   /\ failures' =
                          IF requested /\ ~(resp.transfersOk /\ resp.holdersOk)
                          THEN failures \cup {"forensics"} ELSE failures
    /\ analysisResult' = analyzeForensics(forensics', bestPair.priceUsd,
                                          bestPair.fdv, bestPair.chainId)
    /\ spc' = "deep"
    /\ UNCHANGED <<scanKeys, bestPair, securityData, scanResult>>
    /\ UNCHANGED <<scoreVars, traceVars, fetchVars>>

\* if (isSolana && heliusKey) ... else if (!isSolana && alchemyKey) ..., and in
\* either branch if (block0Addresses.length > 0)
TracerRunsWhateverKey == Len(analysisResult.block0Buyers) > 0
TracerRuns ==
    /\ \/ bestPair.chainId = "solana" /\ heliusKey
       \/ bestPair.chainId # "solana" /\ alchemyKey
    /\ Len(analysisResult.block0Buyers) > 0

\* D2 with the tracer, then E to I.
DeepBundleAnalysis ==
    /\ spc = "deep"
    /\ TracerRuns
    /\ \E traceOk \in BOOLEAN, labelOk \in BOOLEAN, bc \in ClusterResults :
           LET r == DeepAnalysis(traceOk, labelOk, bc)
           IN  /\ calls' = calls \cup {"trace"}
                       \cup (IF traceOk THEN {"cluster"} ELSE {})
               /\ failures' = failures
                       \cup (IF traceOk THEN {} ELSE {"trace"})
                       \cup (IF traceOk /\ ~labelOk THEN {"cluster"} ELSE {})
               /\ IF r.raised
                  THEN spc' = "raised" /\ UNCHANGED scanResult
                  ELSE /\ scanResult' =
                              Assemble(bestPair, securityData, forensics,
                                       forensicsStatus, analysisResult, r.value)
                       /\ spc' = "returned"
    /\ UNCHANGED <<scanKeys, bestPair, securityData, forensics,
                   forensicsStatus, analysisResult>>
    /\ UNCHANGED <<scoreVars, traceVars, fetchVars>>

\* D2 skipped, then E to I.
SkipDeepAnalysis ==
    /\ spc = "deep"
    /\ ~TracerRuns
    /\ scanResult' = Assemble(bestPair, securityData, forensics,
                              forensicsStatus, analysisResult, NoBundleControl)
    /\ spc' = "returned"
    /\ UNCHANGED <<scanKeys, bestPair, securityData, forensics,
                   forensicsStatus, analysisResult, calls, failures>>
    /\ UNCHANGED <<scoreVars, traceVars, fetchVars>>

----------------------------------------------------------------------------
(* Analyzer and Wallet-List Builder on arbitrary snapshots                 *)

MaxTransfers == 6    \* longest early-transfer list
MaxFullKinds == 3    \* leading transfers that may be of any kind
MaxHolders == 21     \* longest holder list

BuyerNames == <<"b1", "b2", "b3", "b4", "b5", "b6", "b7">>
SellerNames == <<"s1", "s2", "s3", "s4", "s5", "s6", "s7">>
HolderNames ==
    <<"h1", "h2", "h3", "h4", "h5", "h6", "h7", "h8", "h9", "h10", "h11",
      "h12", "h13", "h14", "h15", "h16", "h17", "h18", "h19", "h20", "h21",
      "h22">>

\* The k-th transfer of a snapshot, by kind: a new buyer served by the common
\* seller; a new buyer served by a seller of its own; the first buyer again; a
\* mint (zero-address seller); a transfer without buyer; a transfer to a zero
\* address. On Solana the adapter leaves sellerAddress empty and carries the
\* value in usdValue (0 when the provider gave none); on EVM chains usdValue
\* is 0 and the value is tokenAmount * priceUsd.
TransferKinds(k) ==
    IF k <= MaxFullKinds
    THEN {"common", "own", "again", "mint", "nobuyer", "zerobuyer"}
    ELSE {"common", "own"}

NormalizedTransfer(kind, k, chainId) ==
    [blockNumber |-> 101,
     buyerAddress |-> CASE kind = "again" -> BuyerNames[1]
                        [] kind = "nobuyer" -> ""
                        [] kind = "zerobuyer" -> SystemProgram
                        [] OTHER -> BuyerNames[k],
     sellerAddress |-> IF chainId = "solana" THEN ""
                       ELSE CASE kind = "own" -> SellerNames[k]
                              [] kind = "mint" -> ZeroAddress
                              [] OTHER -> "s0",
     tokenAmount |-> 500,
     usdValue |-> IF chainId = "solana" /\ kind # "again" THEN 700 ELSE 0,
     transactionType |-> IF chainId = "solana" THEN "buy" ELSE "transfer"]

TransferLists(chainId) ==
    UNION {{[k \in 1..n |-> NormalizedTransfer(kinds[k], k, chainId)] :
               kinds \in {c \in [1..n -> TransferKinds(1)] :
                             \A k \in 1..n : c[k] \in TransferKinds(k)}} :
           n \in 0..MaxTransfers}

\* Holder lists: none; two holders, the second a launch buyer; MaxHolders
\* holders of which the first, the second and the last are launch buyers.
\* The adapters deliver at most twenty holders; the longer list exercises
\* buildWalletList's own cut.
HolderLists ==
    {<<>>,
     [k \in 1..2 |-> [address |-> IF k = 1 THEN HolderNames[1]
                                   ELSE BuyerNames[1],
                      balance |-> 1000, percentage |-> 30, usdValue |-> 2500]],
     [k \in 1..MaxHolders |->
         [address |-> IF k <= 2 THEN BuyerNames[k]
                      ELSE IF k = MaxHolders THEN BuyerNames[3]
                      ELSE HolderNames[k],
          balance |-> 1000, percentage |-> 4, usdValue |-> 2500]]}

\* A snapshot as the adapters deliver it: the launch window is a non-empty
\* prefix of the early window (its first one, two or three transfers, or all
\* of it), the transfers after it lie in later blocks, and a snapshot without
\* transfers has creation block 0.
Snapshot(h, early, n0, chainId) ==
    IF early = <<>> THEN ForensicData(h, <<>>, <<>>, 0, chainId)
    ELSE LET placed == [k \in 1..Len(early) |->
                           IF k <= n0 THEN early[k]
                           ELSE [early[k] EXCEPT !.blockNumber = 106]]
         IN  ForensicData(h, SubSeq(placed, 1, n0), placed, 101, chainId)

AnalyzeInputs ==
    /\ moralisKey = TRUE
    /\ heliusKey = FALSE
    /\ alchemyKey = FALSE
    /\ spc = "analyze"
    /\ bestPair \in [present : {TRUE}, chainId : {"solana", "ethereum"},
                      liquidity : {[present |-> TRUE, usd |-> 50000]},
                      priceUsd : {2}, fdv : {100000}]
    /\ securityData \in {NoSecurity, [NoSecurity EXCEPT !.present = TRUE,
                                                        !.is_honeypot = TRUE]}
    /\ \/ forensics = NoForensics
       \/ \E early \in TransferLists(bestPair.chainId), h \in HolderLists :
              \E n0 \in {1, 2, 3, Len(early)} \cap 0..Len(early) :
                 forensics = Snapshot(h, early, n0, bestPair.chainId)
    /\ forensicsStatus = IF forensics.present THEN "SUCCESS"
                         ELSE "NOT_SUPPORTED"
    /\ analysisResult = EmptyAnalysis
    /\ scanResult = NotReturned
    /\ calls = {}
    /\ failures = {}

\* Sections D to I of runFullScan with the deep analysis skipped.
AnalyzeSnapshot ==
    /\ spc = "analyze"
    /\ analysisResult' = analyzeForensics(forensics, bestPair.priceUsd,
                                          bestPair.fdv, bestPair.chainId)
    /\ scanResult' = Assemble(bestPair, securityData, forensics,
                              forensicsStatus, analysisResult', NoBundleControl)
    /\ spc' = "returned"
    /\ UNCHANGED <<scanKeys, bestPair, securityData, forensics,
                   forensicsStatus, calls, failures>>
    /\ UNCHANGED <<scoreVars, traceVars, fetchVars>>

----------------------------------------------------------------------------
(* The requests of one trace                                               *)

Now == 2000000       \* Date.now() / 1000, later than every transaction
MaxHistory == 4      \* transactions one activity fetch returns
MaxFetched == 2      \* wallets read at hops 0 to 2
MaxBatched == 6      \* longest list handed to the batch balance lookup

\* heliusService: traceFundingSource. fundingTxs is filtered in the fetched
\* order and sorted by descending timestamp (Array.prototype.sort is stable);
\* `find` takes the first qualifying element of the sorted list, the fallback
\* takes its last element. The sender and the amount are read from the first
\* native transfer of the chosen transaction that goes to the wallet.
traceFundingSource(txs, wallet, firstBuyTimestamp) ==
    LET KNOWN_CEX_ADDRESSES ==
            {"5tzFkiKscXHK5ZXCGbXZxdw7gTjjD1mBwuoFbhUvuAi9"}
        fundingTxs ==
            {k \in 1..Len(txs) :
                \E j \in 1..Len(txs[k].nativeTransfers) :
                    /\ txs[k].nativeTransfers[j].toUserAccount = wallet
                    /\ txs[k].nativeTransfers[j].amount > 10000000}
        Before(a, b) ==
            \/ txs[a].timestamp > txs[b].timestamp
            \/ txs[a].timestamp = txs[b].timestamp /\ a < b
        recent ==
            {k \in fundingTxs :
                /\ txs[k].timestamp < firstBuyTimestamp
                /\ txs[k].timestamp > firstBuyTimestamp - 86400}
        best ==
            IF recent # {}
            THEN CHOOSE k \in recent :
                     \A m \in recent \ {k} : Before(k, m)
            ELSE CHOOSE k \in fundingTxs :
                     \A m \in fundingTxs \ {k} : Before(m, k)
        toWallet ==
            SelectSeq(txs[best].nativeTransfers,
                      LAMBDA nt : nt.toUserAccount = wallet)
        transfer == Head(toWallet)
    IN  IF fundingTxs = {} THEN [present |-> FALSE]
        ELSE [present |-> TRUE,
              address |-> transfer.fromUserAccount,
              amount |-> transfer.amount,
              timestamp |-> txs[best].timestamp,
              isCex |-> transfer.fromUserAccount \in KNOWN_CEX_ADDRESSES]

\* heliusService: fetchFullWalletData and fetchTransferWalletData after the
\* awaited Promise.all: parseSwaps, parseTransfers, traceFundingSource and
\* the returned node. `moved` lists the token transfers in the order the two
\* nested forEach loops visit them, each with its transaction.
fetchFullWalletData(wallet, mintAddress, isSeed, depth, txs, balance) ==
    LET width ==
            CHOOSE w \in {1} \cup {Len(txs[k].tokenTransfers) : k \in 1..Len(txs)} :
                \A k \in 1..Len(txs) : Len(txs[k].tokenTransfers) <= w
        slots ==
            [s \in 1..(Len(txs) * width) |->
                [tx |-> ((s - 1) \div width) + 1, tt |-> ((s - 1) % width) + 1]]
        filled ==
            SelectSeq(slots,
                      LAMBDA p : p.tt <= Len(txs[p.tx].tokenTransfers))
        moved ==
            [s \in 1..Len(filled) |->
                [tx |-> txs[filled[s].tx],
                 tt |-> txs[filled[s].tx].tokenTransfers[filled[s].tt]]]
        ofMint ==
            SelectSeq(moved, LAMBDA m : /\ m.tt.mint = mintAddress
                                        /\ m.tt.tokenAmount > 0)
        isSwapLike(tx) ==
            tx.type = "SWAP" \/ tx.type = "UNKNOWN" \/ tx.source = "PUMP_FUN"
        swapped == SelectSeq(ofMint, LAMBDA m : isSwapLike(m.tx))
        bought ==
            SelectSeq(swapped, LAMBDA m : /\ m.tt.toUserAccount = wallet
                                          /\ m.tt.fromUserAccount # wallet)
        sold ==
            SelectSeq(swapped, LAMBDA m : /\ ~(/\ m.tt.toUserAccount = wallet
                                               /\ m.tt.fromUserAccount # wallet)
                                          /\ m.tt.fromUserAccount = wallet
                                          /\ m.tt.toUserAccount # wallet)
        sent ==
            SelectSeq(ofMint,
                      LAMBDA m : /\ m.tt.fromUserAccount # m.tt.toUserAccount
                                 /\ ~isExcludedAddress(m.tt.fromUserAccount)
                                 /\ ~isExcludedAddress(m.tt.toUserAccount))
        outgoing == SelectSeq(sent, LAMBDA m : m.tt.fromUserAccount = wallet)
        incoming ==
            SelectSeq(sent, LAMBDA m : /\ m.tt.fromUserAccount # wallet
                                       /\ m.tt.toUserAccount = wallet)
        buys ==
            [s \in 1..Len(bought) |->
                [tokenAmount |-> bought[s].tt.tokenAmount,
                 timestamp |-> bought[s].tx.timestamp]]
        firstBuyTimestamp ==
            IF buys # <<>> /\ buys[1].timestamp # 0 THEN buys[1].timestamp
            ELSE Now
    IN  [address |-> wallet,
         buys |-> buys,
         sells |-> [s \in 1..Len(sold) |->
                       [tokenAmount |-> sold[s].tt.tokenAmount,
                        timestamp |-> sold[s].tx.timestamp]],
         outgoingTransfers |->
             [s \in 1..Len(outgoing) |->
                 [to |-> outgoing[s].tt.toUserAccount,
                  tokenAmount |-> outgoing[s].tt.tokenAmount,
                  timestamp |-> outgoing[s].tx.timestamp]],
         incomingTransfers |->
             [s \in 1..Len(incoming) |->
                 [from |-> incoming[s].tt.fromUserAccount,
                  tokenAmount |-> incoming[s].tt.tokenAmount,
                  timestamp |-> incoming[s].tx.timestamp]],
         currentBalance |-> balance,
         isSeedWallet |-> isSeed,
         traceDepth |-> depth,
         fundingSource |-> traceFundingSource(txs, wallet, firstBuyTimestamp)]

\* alchemyService: fetchEvmWalletData after the awaited Promise.all:
\* classifyTransfers and the returned node, which has no fundingSource.
fetchEvmWalletData(wallet, isSeed, depth, transfers, balance) ==
    LET outgoing ==
            SelectSeq(transfers,
                      LAMBDA t : toLowerCase(t.from) = toLowerCase(wallet))
        incoming ==
            SelectSeq(transfers,
                      LAMBDA t : toLowerCase(t.from) # toLowerCase(wallet))
    IN  [address |-> wallet,
         buys |-> <<>>,
         sells |-> <<>>,
         outgoingTransfers |->
             [s \in 1..Len(outgoing) |->
                 [to |-> outgoing[s].to, tokenAmount |-> outgoing[s].value,
                  timestamp |-> 0]],
         incomingTransfers |->
             [s \in 1..Len(incoming) |->
                 [from |-> incoming[s].from, tokenAmount |-> incoming[s].value,
                  timestamp |-> 0]],
         currentBalance |-> balance,
         isSeedWallet |-> isSeed,
         traceDepth |-> depth]

FetchIdle ==
    /\ adapter = "helius"
    /\ tokenAddress = ""
    /\ walletQueue = <<>>
    /\ hop3Array = <<>>
    /\ history = <<>>
    /\ fpc = "idle"
    /\ pos = 0
    /\ inFlight = {}
    /\ pending = {}
    /\ allTxs = <<>>
    /\ currentBalance = 0
    /\ walletData = [present |-> FALSE]
    /\ lookedUp = {}
    /\ trail = <<>>

\* A trace at the point where traceDistributionTree or traceEvmDistributionTree
\* enters its level-0 loop. The first wallet read is "w1" (Helius) or "0xDeV"
\* (Alchemy, which reports addresses in lower case); the provider answers the
\* activity of that wallet with `history` and of every other wallet with an
\* empty list. A Helius history is a list of up to MaxHistory different
\* transactions, in any order: swaps of the target token against a pool that is
\* not in EXCLUDED_ADDRESSES and against an excluded program, plain transfers in
\* and out, a transfer of another mint, a self-transfer, a zero amount, and
\* native transfers above, at and below the dust threshold, one of them from an
\* exchange wallet, on both sides of the one-day window before the buys. An
\* Alchemy history is the pair of the outgoing and the incoming list.
FetchInit ==
    LET TT(from, to, mint, amount) ==
            [fromUserAccount |-> from, toUserAccount |-> to, mint |-> mint,
             tokenAmount |-> amount]
        NT(from, to, amount) ==
            [fromUserAccount |-> from, toUserAccount |-> to, amount |-> amount]
        Tx(type, source, timestamp, tts, nts) ==
            [type |-> type, source |-> source, timestamp |-> timestamp,
             tokenTransfers |-> tts, nativeTransfers |-> nts]
        Binance == "5tzFkiKscXHK5ZXCGbXZxdw7gTjjD1mBwuoFbhUvuAi9"
        Txs ==
            {Tx("SWAP", "RAYDIUM", 1000000,
                <<TT("LpPool", "w1", "TokenMint", 11)>>, <<>>),
             Tx("UNKNOWN", "PUMP_FUN", 1050000,
                <<TT(SystemProgram, "w1", "TokenMint", 12)>>, <<>>),
             Tx("SWAP", "RAYDIUM", 1060000,
                <<TT("w1", "LpPool", "TokenMint", 13),
                  TT("LpPool", "w1", "OtherMint", 1)>>, <<>>),
             Tx("TRANSFER", "SYSTEM_PROGRAM", 1055000,
                <<TT("w1", "w2", "TokenMint", 14)>>, <<>>),
             Tx("TRANSFER", "SYSTEM_PROGRAM", 995000,
                <<TT("w3", "w1", "TokenMint", 15),
                  TT("w3", "w2", "TokenMint", 16)>>, <<>>),
             Tx("TRANSFER", "SYSTEM_PROGRAM", 1001000,
                <<TT("w1", "w1", "TokenMint", 17),
                  TT("w1", SystemProgram, "TokenMint", 18),
                  TT("w2", "w1", "TokenMint", 0)>>, <<>>),
             Tx("TRANSFER", "SYSTEM_PROGRAM", 990000,
                <<>>, <<NT("w4", "w1", 20000000)>>),
             Tx("TRANSFER", "SYSTEM_PROGRAM", 1020000,
                <<>>, <<NT("w5", "w1", 5), NT("w4", "w1", 30000000)>>),
             Tx("TRANSFER", "SYSTEM_PROGRAM", 900000,
                <<>>, <<NT(Binance, "w1", 15000000)>>),
             Tx("TRANSFER", "SYSTEM_PROGRAM", 980000,
                <<>>, <<NT("w3", "w1", 10000000),
                        NT("w1", "w2", 50000000)>>)}
        Histories ==
            {h \in UNION {[1..n -> Txs] : n \in 0..MaxHistory} :
                \A a, b \in 1..Len(h) : a # b => h[a] # h[b]}
        T(from, to, value) == [from |-> from, to |-> to, value |-> value]
        OutTxs ==
            {T("0xdev", "0xbuyera", 5), T("0xdev", "0xdev", 3),
             T("0xdev", DeadAddress, 4)}
        InTxs == {T("0xbuyerb", "0xdev", 6)}
        EvmHistories ==
            {<<o, i>> : o \in UNION {[1..n -> OutTxs] : n \in 0..2},
                        i \in UNION {[1..n -> InTxs] : n \in 0..1}}
        first(a) == IF a = "helius" THEN "w1" ELSE EvmDeployer
        Fetched(a) ==
            {<<[address |-> first(a), depth |-> 0]>>}
            \cup {<<[address |-> first(a), depth |-> 0],
                    [address |-> "w2", depth |-> 1]>> :
                      n \in 2..MaxFetched}
    IN  /\ adapter \in {"helius", "alchemy"}
        /\ tokenAddress = "TokenMint"
        /\ \/ /\ walletQueue \in Fetched(adapter)
              /\ history \in IF adapter = "helius" THEN Histories
                             ELSE EvmHistories
              /\ hop3Array = <<>>
           \/ /\ walletQueue = <<[address |-> first(adapter), depth |-> 0]>>
              /\ history = IF adapter = "helius" THEN <<>> ELSE <<<<>>, <<>>>>
              /\ hop3Array \in {SubSeq(WalletNames, 2, n + 1) :
                                    n \in 1..MaxBatched}
        /\ fpc = "loop"
        /\ pos = 1
        /\ inFlight = {}
        /\ pending = {}
        /\ allTxs = <<>>
        /\ currentBalance = 0
        /\ walletData = [present |-> FALSE]
        /\ lookedUp = {}
        /\ trail = <<>>
        /\ ScoreIdle /\ TraceIdle /\ ScanIdle

\* The head of a level loop: fetchFullWalletData, fetchTransferWalletData or
\* fetchEvmWalletData starts both halves of its Promise.all in one synchronous
\* step. fetchWalletTransactions and getWalletTokenBalance issue one request
\* each; getAssetTransfers issues its two requests together, getTokenBalance
\* one.
FetchWallet ==
    /\ fpc = "loop"
    /\ pos <= Len(walletQueue)
    /\ inFlight' = inFlight \cup
           {[at |-> pos, call |-> c] :
               c \in IF adapter = "helius"
                     THEN {"transactions", "getTokenAccountsByOwner"}
                     ELSE {"getAssetTransfers.from", "getAssetTransfers.to",
                           "getTokenBalances"}}
    /\ pending' = {[at |-> pos, call |-> c] :
                      c \in IF adapter = "helius"
                            THEN {"fetchWalletTransactions",
                                  "getWalletTokenBalance"}
                            ELSE {"getAssetTransfers", "getTokenBalance"}}
    /\ allTxs' = <<>>
    /\ fpc' = "await"
    /\ UNCHANGED <<adapter, tokenAddress, walletQueue, hop3Array, history, pos,
                   currentBalance, walletData, lookedUp, trail>>
    /\ UNCHANGED <<scoreVars, traceVars, scanVars>>

\* One request settles, with a response (ok) or with an error.
\*   fetchWalletTransactions: the data, or [] on an error.
\*   getWalletTokenBalance: the balance of the first account; when the answer
\*     lists no account a second request is issued; 0 on an error or when the
\*     second answer lists no account either.
\*   getAssetTransfers: outTxs followed by inTxs once both requests answered;
\*     [] as soon as one of them fails, the other one still being in flight.
\*   getTokenBalance: the balance, or 0 on an error or an empty answer.
\* A promise that resolves is taken off `pending`; a request nobody waits for
\* any more just leaves `inFlight`.
Settle ==
    \E r \in inFlight, ok \in BOOLEAN, found \in BOOLEAN :
        LET p == [at |-> r.at,
                  call |-> CASE r.call = "transactions" ->
                                    "fetchWalletTransactions"
                             [] r.call \in {"getTokenAccountsByOwner",
                                            "getTokenAccountsByOwner2022"} ->
                                    "getWalletTokenBalance"
                             [] r.call \in {"getAssetTransfers.from",
                                            "getAssetTransfers.to"} ->
                                    "getAssetTransfers"
                             [] OTHER -> "getTokenBalance"]
            retried == r.call = "getTokenAccountsByOwner" /\ ok /\ ~found
            twin == \E q \in inFlight \ {r} : /\ q.at = r.at
                                              /\ q.call \in {"getAssetTransfers.from",
                                                             "getAssetTransfers.to"}
            resolved == /\ ~retried
                        /\ p \in pending
                        /\ ~(p.call = "getAssetTransfers" /\ ok /\ twin)
            balance == IF ok /\ found THEN 7 ELSE 0
            isBalance == p.call \in {"getWalletTokenBalance", "getTokenBalance"}
            isActivity == p.call \in {"fetchWalletTransactions",
                                      "getAssetTransfers"}
        IN  /\ inFlight' =
                   (inFlight \ {r}) \cup
                   (IF retried
                    THEN {[at |-> r.at, call |-> "getTokenAccountsByOwner2022"]}
                    ELSE {})
            /\ pending' = IF resolved THEN pending \ {p} ELSE pending
            /\ allTxs' =
                   IF resolved /\ isActivity
                   THEN IF ~ok \/ r.at # 1 THEN <<>>
                        ELSE IF adapter = "helius" THEN history
                        ELSE history[1] \o history[2]
                   ELSE allTxs
            /\ currentBalance' =
                   IF resolved /\ isBalance /\ fpc = "await" THEN balance
                   ELSE currentBalance
            /\ lookedUp' =
                   IF resolved /\ isBalance /\ fpc = "batchAwait"
                   THEN lookedUp \cup {[at |-> r.at, balance |-> balance]}
                   ELSE lookedUp
            /\ UNCHANGED <<adapter, tokenAddress, walletQueue, hop3Array, history,
                           fpc, pos, walletData, trail>>
            /\ UNCHANGED <<scoreVars, traceVars, scanVars>>

\* The awaited Promise.all of the wallet resolved: the node is built and
\* pushed, the loop delays and moves on; after the last wallet the hop-3
\* addresses go to batchGetBalances or batchGetEvmBalances.
BuildNode ==
    /\ fpc = "await"
    /\ pending = {}
    /\ walletData' =
           IF adapter = "helius"
           THEN fetchFullWalletData(walletQueue[pos].address, tokenAddress,
                                    walletQueue[pos].depth = 0, walletQueue[pos].depth,
                                    allTxs, currentBalance)
           ELSE fetchEvmWalletData(walletQueue[pos].address,
                                   walletQueue[pos].depth = 0, walletQueue[pos].depth,
                                   allTxs, currentBalance)
    /\ pos' = IF pos < Len(walletQueue) THEN pos + 1 ELSE 1
    /\ fpc' = IF pos < Len(walletQueue) THEN "loop"
              ELSE IF hop3Array # <<>> THEN "batch" ELSE "done"
    /\ UNCHANGED <<adapter, tokenAddress, walletQueue, hop3Array, history,
                   inFlight, pending, allTxs, currentBalance, lookedUp, trail>>
    /\ UNCHANGED <<scoreVars, traceVars, scanVars>>

\* batchGetBalances / batchGetEvmBalances: the next slice of at most batchSize
\* addresses, one balance lookup each, all started in one synchronous step.
IssueGroup ==
    /\ fpc = "batch"
    /\ pos <= Len(hop3Array)
    /\ LET batch == pos..Min(pos + batchSize - 1, Len(hop3Array))
       IN  /\ inFlight' = inFlight \cup
                   {[at |-> k,
                     call |-> IF adapter = "helius"
                              THEN "getTokenAccountsByOwner"
                              ELSE "getTokenBalances"] : k \in batch}
           /\ pending' = {[at |-> k,
                           call |-> IF adapter = "helius"
                                    THEN "getWalletTokenBalance"
                                    ELSE "getTokenBalance"] : k \in batch}
    /\ trail' = Append(trail, "group")
    /\ fpc' = "batchAwait"
    /\ UNCHANGED <<adapter, tokenAddress, walletQueue, hop3Array, history, pos,
                   allTxs, currentBalance, walletData, lookedUp>>
    /\ UNCHANGED <<scoreVars, traceVars, scanVars>>

\* The awaited Promise.all of the group resolved. batchGetBalances delays
\* before the next group when there is one; batchGetEvmBalances goes straight
\* to the next iteration.
JoinGroup ==
    /\ fpc = "batchAwait"
    /\ pending = {}
    /\ pos' = pos + batchSize
    /\ trail' = IF adapter = "helius" /\ pos + batchSize <= Len(hop3Array)
                THEN Append(trail, "delay") ELSE trail
    /\ fpc' = IF pos + batchSize <= Len(hop3Array) THEN "batch" ELSE "done"
    /\ UNCHANGED <<adapter, tokenAddress, walletQueue, hop3Array, history,
                   inFlight, pending, allTxs, currentBalance, walletData,
                   lookedUp>>
    /\ UNCHANGED <<scoreVars, traceVars, scanVars>>

----------------------------------------------------------------------------
(* Specifications                                                          *)

ScoreInit == ScoreInputs /\ TraceIdle /\ ScanIdle /\ FetchIdle
ScoreNext == CalculateScore
SpecScore == ScoreInit /\ [][ScoreNext]_vars

TraceInit == TraceInputs /\ ScoreIdle /\ ScanIdle /\ FetchIdle
TraceNext ==
    \/ TraceStart
    \/ Level0Skip
    \/ Level0Fetch
    \/ Level0Done
    \/ LevelFetch(1)
    \/ Level1Done
    \/ LevelFetch(2)
    \/ Level2Done
    \/ Level3Batch
    \/ Level3Push
    \/ Level3Done
SpecTrace == TraceInit /\ [][TraceNext]_vars

\* Every awaited network call settles, so the step the trace is waiting at is
\* eventually taken.
SpecTraceFair == SpecTrace /\ WF_vars(TraceNext)

ScanInit == ScanInputs /\ ScoreIdle /\ TraceIdle /\ FetchIdle
ScanNext ==
    \/ FetchPairs
    \/ CheckSecurity
    \/ FetchForensics
    \/ DeepBundleAnalysis
    \/ SkipDeepAnalysis
SpecScan == ScanInit /\ [][ScanNext]_vars

AnalyzeInit == AnalyzeInputs /\ ScoreIdle /\ TraceIdle /\ FetchIdle
SpecAnalyze == AnalyzeInit /\ [][AnalyzeSnapshot]_vars

SpecFetch ==
    FetchInit /\ [][FetchWallet \/ Settle \/ BuildNode \/ IssueGroup
                      \/ JoinGroup]_vars

\* A tracer called on its own, or a scan.
SpecTraceOrScan == (TraceInit \/ ScanInit) /\ [][TraceNext \/ ScanNext]_vars

----------------------------------------------------------------------------
\* C1: for every combination of liquidity, security flags (present or absent),
\* launch snapshot and cluster-control result (present or absent), the score
\* returned by calculateScore is an integer between 0 and 100.
C1_ScoreInRange ==
    scoreOut # NotScored => scoreOut.score \in 0..100

\* The raw sum is below zero (Scenario C and worse) and the result was clamped.
C1_Witness ==
    /\ scoreOut # NotScored
    /\ ~Honeypot(security)
    /\ 100 + SumImpacts(scoreOut.breakdown) < 0
    /\ scoreOut.score = 0

\* C2: whenever the security audit reports a honeypot, calculateScore returns
\* score 0 and a breakdown of exactly one entry, of impact -100, whatever the
\* other inputs are.
C2_HoneypotShortCircuit ==
    (scoreOut # NotScored /\ security.present /\ security.is_honeypot) =>
        /\ scoreOut.score = 0
        /\ Len(scoreOut.breakdown) = 1
        /\ scoreOut.breakdown[1].impact = -100

\* A honeypot whose other inputs would each have pushed an entry of their own.
C2_Witness ==
    /\ scoreOut # NotScored
    /\ security.present /\ security.is_honeypot /\ security.is_mintable
    /\ security.cannot_sell_all
    /\ liquidityUsd < 1000
    /\ analysis.bundleWalletCount > 10
    /\ bundleControl.present /\ bundleControl.clusterCount > 0
    /\ Len(scoreOut.breakdown) = 1

----------------------------------------------------------------------------
(* Claims about the tracer, under SpecTrace                                *)

Returning == tpc = "done"

Nodes == 1..Len(results)

\* C3: for any seed address list and any transfer graph, the list of nodes a
\* trace returns contains at most MAX_TOTAL_WALLETS nodes.
C3_AtMostCapNodes ==
    Returning => Len(results) <= MAX_TOTAL_WALLETS

\* C4: the cap is checked before each new wallet fetch at every hop level: once
\* the running total of visited wallets has reached MAX_TOTAL_WALLETS, no
\* further activity fetch or balance fetch is issued.
C4_NoFetchOnceCapReached ==
    [][Len(results) >= MAX_TOTAL_WALLETS => fetchCount' = fetchCount]_vars

\* C5: in the list returned by one trace no two nodes have the same address,
\* for any seed list (one that repeats an address included) and any transfer
\* graph.
C5_AddressesUnique ==
    \A i, j \in Nodes : i # j => results[i].address # results[j].address

\* C6: every seed node has hopDepth 0; every other node has hopDepth d in
\* {1, 2, 3} and some node of hopDepth d - 1 lists its address among its
\* outgoing transfers.
C6_HopDepthFromParent ==
    \A i \in Nodes :
        LET n == results[i]
        IN  IF n.isSeedWallet THEN n.traceDepth = 0
            ELSE /\ n.traceDepth \in 1..3
                 /\ \E j \in Nodes :
                       /\ results[j].traceDepth = n.traceDepth - 1
                       /\ n.address \in Range(results[j].outgoingTransfers)

\* A returned trace that reaches hop 3.
C6_Witness ==
    /\ Returning
    /\ \E i \in Nodes : results[i].traceDepth = 3
    /\ \E i \in Nodes : results[i].traceDepth = 2
    /\ \E i \in Nodes : results[i].traceDepth = 1

\* C7: no address of the exclusion set is the address of a node of a trace,
\* whether it was supplied as a seed or found as a transfer recipient.
C7_NoExcludedNode ==
    \A i \in Nodes :
        IF flavor = "solana"
        THEN results[i].address \notin EXCLUDED_ADDRESSES \cup ShortAddresses
        ELSE toLowerCase(results[i].address) \notin EVM_EXCLUDED_ADDRESSES

\* A returned trace that was given an excluded seed, and one of whose nodes
\* sent the token to an excluded address.
C7_Witness ==
    /\ Returning
    /\ \E p \in 1..Len(seedAddresses) :
           seedAddresses[p] \in Infrastructure(flavor)
    /\ \E i \in Nodes :
           Range(results[i].outgoingTransfers) \cap Infrastructure(flavor) # {}
    /\ Len(results) >= 2

----------------------------------------------------------------------------
(* Claims about the scan, under SpecScan                                   *)

Scanned == spc = "returned" /\ bestPair.present

Implemented(chainId) == chainId = "solana" \/ chainId \in EVM_CHAINS

\* C8: in the result of a scan that reached the forensic fetch,
\* forensicsStatus is MISSING_KEY exactly when the forensic credential is
\* absent, NOT_SUPPORTED exactly when (the credential being present) the chain
\* has no forensic implementation, and ERROR exactly when a provider call
\* failed during the forensic fetch.
C8_StatusNamesTheCause ==
    Scanned =>
        /\ scanResult.forensicsStatus = "MISSING_KEY" <=> ~moralisKey
        /\ scanResult.forensicsStatus = "NOT_SUPPORTED" <=>
               (moralisKey /\ ~Implemented(bestPair.chainId))
        /\ scanResult.forensicsStatus = "ERROR" <=> "forensics" \in failures

\* C10: a scan whose pair list is not empty ends with a returned result (a
\* score, a risk band, a forensics status), whatever the security audit, the
\* forensic fetch, the tracer and the cluster labelling did, and it never
\* raises; a scan returns the empty result only when the pair list is empty,
\* and then no collaborator other than the pair lookup was called.
C10_ScanAlwaysReturns ==
    /\ spc # "raised"
    /\ spc \in {"pairs", "security", "forensics", "deep"} => ENABLED ScanNext
    /\ Scanned =>
           /\ scanResult.score \in 0..100
           /\ scanResult.riskLevel \in {"SAFE", "CAUTION", "DANGER", "CRITICAL"}
           /\ scanResult.forensicsStatus \in
                  {"SUCCESS", "MISSING_KEY", "NOT_SUPPORTED", "ERROR"}
           /\ scanResult # buildEmptyResult
           /\ {"pairs", "security"} \subseteq calls
    /\ (spc = "returned" /\ ~bestPair.present) =>
           /\ scanResult = buildEmptyResult
           /\ calls = {"pairs"}

\* A returned scan in which the security audit, a forensic provider request
\* and the cluster labelling all failed.
C10_Witness ==
    /\ Scanned
    /\ {"security", "forensics", "cluster"} \subseteq failures
    /\ {"trace", "cluster"} \subseteq calls

\* C11: in every result a scan returns, the token-not-found result included,
\* riskLevel is the band of score: SAFE from 80, CAUTION from 50 to 79, DANGER
\* from 20 to 49, CRITICAL below 20.
C11_RiskLevelIsBandOfScore ==
    spc = "returned" =>
        /\ scanResult.riskLevel = "SAFE" <=> scanResult.score >= 80
        /\ scanResult.riskLevel = "CAUTION" <=>
               (scanResult.score >= 50 /\ scanResult.score < 80)
        /\ scanResult.riskLevel = "DANGER" <=>
               (scanResult.score >= 20 /\ scanResult.score < 50)
        /\ scanResult.riskLevel = "CRITICAL" <=> scanResult.score < 20

----------------------------------------------------------------------------
(* Claims about the breakdown, under SpecScore                             *)

\* The labels of the breakdown, the bundled-supply entry left out.
RuleLabels ==
    LET named == SelectSeq(scoreOut.breakdown,
                           LAMBDA e : e.label # "Bundled Supply")
    IN  [k \in 1..Len(named) |-> named[k].label]

Evaluated == scoreOut # NotScored /\ ~(security.present /\ security.is_honeypot)

ClusterReported == bundleControl.present /\ bundleControl.clusterCount > 0

\* C12 as stated: for a non-honeypot evaluation every rule (mintable, buy tax,
\* sell tax, cannot-sell-all, liquidity, bundle wallet count, launch volume,
\* holder concentration, and LP-impact ratio when a cluster result with a
\* cluster is present) appends exactly one entry, whether or not it
\* penalizes, in that order.
C12_EveryRuleOneEntry ==
    Evaluated =>
        RuleLabels =
            <<"Mintable Supply", "Buy Tax", "Sell Tax", "Sell Restriction",
              "Liquidity", "Bundle Activity", "Launch Volume",
              "Holder Concentration">>
            \o (IF ClusterReported THEN <<"LP Impact Ratio">> ELSE <<>>)

\* C12 amended: for a non-honeypot evaluation the liquidity, bundle wallet
\* count, launch volume and holder concentration rules each append exactly one
\* entry whether or not they penalize, and the LP-impact rule appends exactly
\* one when a cluster result with a cluster is present; the mintable, buy tax,
\* sell tax and cannot-sell-all rules append one entry when they penalize and
\* none otherwise; the entries appear in the fixed rule order.
C12_TieredRulesOneEntry ==
    Evaluated =>
        RuleLabels =
            (IF security.present /\ security.is_mintable
             THEN <<"Mintable Supply">> ELSE <<>>)
            \o (IF security.present /\ security.buy_tax > 10
                THEN <<"Buy Tax">> ELSE <<>>)
            \o (IF security.present /\ security.sell_tax > 10
                THEN <<"Sell Tax">> ELSE <<>>)
            \o (IF security.present /\ security.cannot_sell_all
                THEN <<"Sell Restriction">> ELSE <<>>)
            \o <<"Liquidity", "Bundle Activity", "Launch Volume",
                 "Holder Concentration">>
            \o (IF ClusterReported THEN <<"LP Impact Ratio">> ELSE <<>>)

\* An evaluation in which no rule penalizes: the audit is present and clean,
\* every tiered rule is in its pass tier, and a cluster is reported.
C12_Witness ==
    /\ Evaluated
    /\ security.present /\ ~security.is_mintable /\ ~security.cannot_sell_all
    /\ security.buy_tax <= 10 /\ security.sell_tax <= 10
    /\ ClusterReported
    /\ scoreOut.score = 100
    /\ Len(RuleLabels) = 5

----------------------------------------------------------------------------
(* Claims about the scoring of a scan, under SpecScan                      *)

\* C13: an input of the scoring step that is absent upstream contributes no
\* penalty: without a liquidity figure on the pair the Liquidity entry is not
\* negative, and when the security audit, the liquidity figure, the forensic
\* snapshot and the cluster-control result are all absent the score is 100 and
\* no breakdown entry has a negative impact.
C13_AbsentInputNeutral ==
    Scanned =>
        /\ ~bestPair.liquidity.present =>
               \A k \in 1..Len(scanResult.scoreBreakdown) :
                   scanResult.scoreBreakdown[k].label = "Liquidity" =>
                       scanResult.scoreBreakdown[k].impact >= 0
        /\ (/\ ~securityData.present
            /\ ~bestPair.liquidity.present
            /\ ~forensics.present
            /\ ~scanResult.bundleControl.present) =>
               /\ scanResult.score = 100
               /\ \A k \in 1..Len(scanResult.scoreBreakdown) :
                      scanResult.scoreBreakdown[k].impact >= 0

----------------------------------------------------------------------------
(* Claims about the analyzer, under SpecAnalyze                            *)

\* The snapshot has been analysed and the result assembled.
Analyzed == spc = "returned" /\ scanResult # NotReturned /\ forensics.present

\* The distinct buyers and the volume of a list of transfers, leaving out the
\* transfers without a buyer or to a zero address and, when `sellers` is set,
\* those from a zero address.
BuyersOf(txs, sellers) ==
    {txs[k].buyerAddress : k \in
        {j \in 1..Len(txs) :
            /\ txs[j].buyerAddress \notin ZERO_ADDRESSES \cup {""}
            /\ sellers => txs[j].sellerAddress \notin ZERO_ADDRESSES}}

VolumeOf(txs, sellers) ==
    SumSeq([k \in 1..Len(txs) |->
               IF txs[k].buyerAddress \in BuyersOf(<<txs[k]>>, sellers)
               THEN IF txs[k].usdValue > 0 THEN txs[k].usdValue
                    ELSE txs[k].tokenAmount * bestPair.priceUsd
               ELSE 0])

\* C14: on Solana, at least 3 distinct launch-window buyers give a cluster
\* with the launch-window volume; fewer than 3 but at least 5 distinct
\* early-window buyers give a cluster with the early-window volume; anything
\* else gives no cluster and the launch-window volume.
C14_SolanaClusterRule ==
    (Analyzed /\ bestPair.chainId = "solana") =>
        LET launch == Cardinality(BuyersOf(forensics.block0Transfers, FALSE))
            early == Cardinality(BuyersOf(forensics.earlyTransfers, FALSE))
            launchVolume == VolumeOf(forensics.block0Transfers, FALSE)
            earlyVolume == VolumeOf(forensics.earlyTransfers, FALSE)
            cluster == analysisResult.hasBundleCluster
            volume == analysisResult.bundleVolumeUSD
        IN  /\ launch >= 3 => cluster /\ volume = launchVolume
            /\ (launch < 3 /\ early >= 5) => cluster /\ volume = earlyVolume
            /\ (launch < 3 /\ early < 5) => ~cluster /\ volume = launchVolume
            /\ scanResult.analysis.bundleVolumeUSD = volume

\* An early-window cluster: two launch-window buyers, five early ones, and
\* the reported volume is the early one, which differs from the launch one.
C14_Witness ==
    /\ Analyzed /\ bestPair.chainId = "solana"
    /\ Cardinality(BuyersOf(forensics.block0Transfers, FALSE)) = 2
    /\ Cardinality(BuyersOf(forensics.earlyTransfers, FALSE)) = 5
    /\ analysisResult.hasBundleCluster
    /\ analysisResult.bundleVolumeUSD > analysisResult.block0Volume

\* C15: on an EVM chain hasBundleCluster is true exactly when one non-zero
\* seller has at least 3 distinct non-zero recipients among the early-window
\* transfers, whatever the number of launch-window buyers.
C15_EvmClusterIsFanOut ==
    (Analyzed /\ bestPair.chainId # "solana") =>
        LET early == forensics.earlyTransfers
            sellers == {early[k].sellerAddress : k \in 1..Len(early)}
                           \ ZERO_ADDRESSES
            recipients(seller) ==
                {early[k].buyerAddress : k \in
                    {j \in 1..Len(early) : early[j].sellerAddress = seller}}
                    \ (ZERO_ADDRESSES \cup {""})
        IN  /\ analysisResult.hasBundleCluster <=>
                   \E seller \in sellers : Cardinality(recipients(seller)) >= 3
            /\ analysisResult.bundleVolumeUSD = analysisResult.block0Volume

\* Six launch-window buyers, each served by a seller of its own: no cluster.
C15_Witness ==
    /\ Analyzed /\ bestPair.chainId # "solana"
    /\ Cardinality(BuyersOf(forensics.block0Transfers, TRUE)) >= 5
    /\ analysisResult.sniperCount >= 5
    /\ ~analysisResult.hasBundleCluster

\* C16: on EVM chains a transfer from a zero address adds neither its buyer
\* to the buyer sets nor its value to the volumes; on Solana the seller is not
\* examined; on both, a transfer with an empty or zero-address buyer is left
\* out. Hence the seed buyers are non-zero buyers of launch-window transfers.
C16_ExcludedTransfers ==
    Analyzed =>
        LET evm == bestPair.chainId # "solana"
            launch == forensics.block0Transfers
            seeds == {analysisResult.block0Buyers[k] :
                         k \in 1..Len(analysisResult.block0Buyers)}
        IN  /\ seeds = BuyersOf(launch, evm)
            /\ analysisResult.sniperCount = Cardinality(seeds)
            /\ analysisResult.block0Volume = VolumeOf(launch, evm)
            /\ analysisResult.earlyVolume =
                   VolumeOf(forensics.earlyTransfers, evm)
            /\ ~evm => analysisResult.uniqueFundingSources =
                   Cardinality(BuyersOf(forensics.earlyTransfers, FALSE))
            /\ seeds \subseteq {launch[k].buyerAddress : k \in 1..Len(launch)}
                                  \ (ZERO_ADDRESSES \cup {""})

\* An EVM launch window holding a mint to a buyer that no one else serves,
\* next to a counted transfer: the minted-to buyer is no seed buyer and the
\* launch volume is that of the counted transfers alone.
C16_Witness ==
    /\ Analyzed /\ bestPair.chainId # "solana"
    /\ analysisResult.sniperCount > 0
    /\ \E k \in 1..Len(forensics.block0Transfers) :
          LET tx == forensics.block0Transfers[k]
          IN  /\ tx.sellerAddress = ZeroAddress
              /\ tx.buyerAddress \notin ZERO_ADDRESSES
              /\ \A j \in 1..Len(analysisResult.block0Buyers) :
                     analysisResult.block0Buyers[j] # tx.buyerAddress
    /\ analysisResult.block0Volume <
           Len(forensics.block0Transfers) * 500 * bestPair.priceUsd

----------------------------------------------------------------------------
(* Claims about a scan without forensic snapshot, under SpecScan           *)

----------------------------------------------------------------------------
(* Claims about the result of an analysed snapshot, under SpecAnalyze      *)

\* C18: the threat type of a result with a resolved pair is
\* DISTRIBUTION_PHASE when the audit reports a honeypot; otherwise
\* ACCUMULATION_PHASE when hasBundleCluster holds, or the seed-buyer count is
\* above 5 with a launch volume above 5000, or the seed-buyer count is above
\* 3; otherwise ORGANIC_GROWTH. For a token that is no honeypot it is
\* ACCUMULATION_PHASE exactly when hasBundleCluster or seed-buyer count > 3.
C18_ThreatType ==
    (spc = "returned" /\ scanResult # NotReturned) =>
        LET honeypot == securityData.present /\ securityData.is_honeypot
            cluster == analysisResult.hasBundleCluster
            count == scanResult.analysis.bundleWalletCount
            volume == scanResult.analysis.block0Volume
        IN  /\ scanResult.threatType =
                   CASE honeypot -> "DISTRIBUTION_PHASE"
                     [] ~honeypot /\ (\/ cluster
                                      \/ count > 5 /\ volume > 5000
                                      \/ count > 3) -> "ACCUMULATION_PHASE"
                     [] OTHER -> "ORGANIC_GROWTH"
            /\ ~honeypot => (scanResult.threatType = "ACCUMULATION_PHASE"
                                 <=> (cluster \/ count > 3))
            /\ forensics.present =>
                   count = Cardinality(BuyersOf(forensics.block0Transfers,
                                                bestPair.chainId # "solana"))

\* Four seed buyers, no cluster, a launch volume below 5000, no honeypot.
C18_Witness ==
    /\ Analyzed
    /\ ~(securityData.present /\ securityData.is_honeypot)
    /\ ~analysisResult.hasBundleCluster
    /\ scanResult.analysis.bundleWalletCount = 4
    /\ scanResult.analysis.block0Volume < 5000
    /\ scanResult.threatType = "ACCUMULATION_PHASE"

\* C20: the wallet list has one row per holder for the first 20 holders, in
\* the supplied order; isBundler holds exactly for the addresses of the
\* seed-buyer set; the funding label is Deployer for the first holder (seed
\* buyer or not), Bundle Buyer for any other seed buyer and Unknown otherwise.
\* Without snapshot or without holders the list is empty and the result
\* carries exactly one placeholder row.
C20_WalletList ==
    (spc = "returned" /\ scanResult # NotReturned) =>
        LET holders == IF forensics.present THEN forensics.holders ELSE <<>>
            seeds == IF forensics.present
                     THEN BuyersOf(forensics.block0Transfers,
                                   bestPair.chainId # "solana")
                     ELSE {}
            rows == scanResult.wallets
        IN  IF holders = <<>>
            THEN /\ buildWalletList(forensics, analysisResult.block0Buyers,
                                    bestPair.priceUsd, bestPair.chainId) = <<>>
                 /\ Len(rows) = 1
                 /\ rows[1].address = "No holder data available"
                 /\ ~rows[1].isBundler
                 /\ rows[1].fundingSource = "N/A"
            ELSE /\ Len(rows) = IF Len(holders) < 20 THEN Len(holders) ELSE 20
                 /\ \A k \in 1..Len(rows) :
                       /\ rows[k].address = holders[k].address
                       /\ rows[k].percentage = holders[k].percentage
                       /\ rows[k].isBundler <=> holders[k].address \in seeds
                       /\ rows[k].fundingSource =
                              IF k = 1 THEN "Deployer"
                              ELSE IF holders[k].address \in seeds
                              THEN "Bundle Buyer" ELSE "Unknown"

\* More than 20 holders: the first is a seed buyer and is labelled Deployer,
\* the second is a Bundle Buyer, the third Unknown, and the seed buyer ranked
\* after the twentieth has no row.
C20_Witness ==
    /\ Analyzed
    /\ Len(forensics.holders) > 20
    /\ Len(scanResult.wallets) = 20
    /\ scanResult.wallets[1].isBundler
    /\ scanResult.wallets[1].fundingSource = "Deployer"
    /\ scanResult.wallets[2].fundingSource = "Bundle Buyer"
    /\ scanResult.wallets[3].fundingSource = "Unknown"
    /\ \E j \in 1..Len(analysisResult.block0Buyers) :
          analysisResult.block0Buyers[j] =
              forensics.holders[Len(forensics.holders)].address

----------------------------------------------------------------------------
(* Claims about the tracer credentials, under SpecTraceOrScan              *)

\* C19: a tracer without credential returns an empty list without any network
\* call; a scan starts no trace when the credential of the chain's tracer is
\* absent or the seed-buyer set is empty, and its result then carries no
\* cluster-control result.
C19_NoCredentialNoTrace ==
    /\ (tpc # "idle" /\ ~apiKey) =>
           /\ results = <<>>
           /\ fetchCount = 0 /\ recordsSeen = 0
           /\ tpc \in {"start", "done"}
    /\ Scanned =>
           LET credential == IF bestPair.chainId = "solana" THEN heliusKey
                             ELSE alchemyKey
               seeds == IF forensics.present
                        THEN BuyersOf(forensics.block0Transfers,
                                      bestPair.chainId # "solana")
                        ELSE {}
           IN  (~credential \/ seeds = {}) =>
                   /\ "trace" \notin calls
                   /\ "cluster" \notin calls
                   /\ ~scanResult.bundleControl.present

\* A Solana scan with seed buyers and no Helius credential.
C19_Witness ==
    /\ Scanned
    /\ bestPair.chainId = "solana" /\ ~heliusKey /\ alchemyKey
    /\ analysisResult.sniperCount > 0
    /\ "trace" \notin calls
    /\ ~scanResult.bundleControl.present

----------------------------------------------------------------------------
(* Claims about the score table, under SpecScore                           *)

\* C21: a non-honeypot evaluation has exactly one Liquidity entry; its impact
\* is -40 below 1000, -25 below 5000, -10 below 20000 and 0 from 20000 up, and
\* for two liquidity values a < b the impact of a is at most that of b.
C21_LiquidityMonotonic ==
    Evaluated =>
        LET at == {k \in 1..Len(scoreOut.breakdown) :
                      scoreOut.breakdown[k].label = "Liquidity"}
            tier(liq) == IF liq < 1000 THEN -40 ELSE IF liq < 5000 THEN -25
                         ELSE IF liq < 20000 THEN -10 ELSE 0
            impact(liq) == LiquidityRule(liq).entries[1].impact
        IN  /\ Cardinality(at) = 1
            /\ \A k \in at : scoreOut.breakdown[k].impact = tier(liquidityUsd)
            /\ \A other \in LiquidityValues, k \in at :
                  /\ other < liquidityUsd =>
                         impact(other) <= scoreOut.breakdown[k].impact
                  /\ liquidityUsd < other =>
                         scoreOut.breakdown[k].impact <= impact(other)

\* An evaluation in the second tier, between a lower and a higher one.
C21_Witness ==
    /\ Evaluated
    /\ liquidityUsd = 4999
    /\ \E k \in 1..Len(scoreOut.breakdown) :
          /\ scoreOut.breakdown[k].label = "Liquidity"
          /\ scoreOut.breakdown[k].impact = -25

\* C22: for a non-honeypot input the score is clamp(100 - P, 0, 100), P being
\* the sum of: mintable 25; buy tax > 10, 15; sell tax > 10, 15;
\* cannot-sell-all 30; the liquidity tier; seed-buyer count > 10 / > 5 / > 2,
\* 30 / 15 / 5; launch volume > 50000 / > 10000 / > 5000, 25 / 15 / 10; holder
\* concentration > 80 / > 60, 20 / 10; and, only with a cluster result of at
\* least one cluster, LP-impact ratio > 1.5 / > 1.0 / > 0.5, 20 / 15 / 10 and
\* bundled supply > 30 / > 10, 15 / 8. The token with liquidity 500, 12 bundle
\* wallets, launch volume 60000, concentration 85 and a mintable supply has
\* raw score -40 and score 0.
C22_ScoreIsTable ==
    Evaluated =>
        LET flag(b, p) == IF b THEN p ELSE 0
            sec == security
            an == analysis
            bc == bundleControl
            deep == bc.present /\ bc.clusterCount >= 1
            P == flag(sec.present /\ sec.is_mintable, 25)
                 + flag(sec.present /\ sec.buy_tax > 10, 15)
                 + flag(sec.present /\ sec.sell_tax > 10, 15)
                 + flag(sec.present /\ sec.cannot_sell_all, 30)
                 + (IF liquidityUsd < 1000 THEN 40
                    ELSE IF liquidityUsd < 5000 THEN 25
                    ELSE IF liquidityUsd < 20000 THEN 10 ELSE 0)
                 + (IF an.bundleWalletCount > 10 THEN 30
                    ELSE IF an.bundleWalletCount > 5 THEN 15
                    ELSE IF an.bundleWalletCount > 2 THEN 5 ELSE 0)
                 + (IF an.block0Volume > 50000 THEN 25
                    ELSE IF an.block0Volume > 10000 THEN 15
                    ELSE IF an.block0Volume > 5000 THEN 10 ELSE 0)
                 + (IF an.holdingConcentration > 80 THEN 20
                    ELSE IF an.holdingConcentration > 60 THEN 10 ELSE 0)
                 + flag(deep, IF bc.lpImpactRatio > 15 THEN 20
                              ELSE IF bc.lpImpactRatio > 10 THEN 15
                              ELSE IF bc.lpImpactRatio > 5 THEN 10 ELSE 0)
                 + flag(deep, IF bc.totalBundledSupplyPercent > 30 THEN 15
                              ELSE IF bc.totalBundledSupplyPercent > 10 THEN 8
                              ELSE 0)
            raw == 100 - P
        IN  /\ scoreOut.score =
                   IF raw < 0 THEN 0 ELSE IF raw > 100 THEN 100 ELSE raw
            /\ (liquidityUsd = 500 /\ an.bundleWalletCount = 12) =>
                   raw = -40 /\ scoreOut.score = 0

\* The token with liquidity 500 and 12 bundle wallets, scored 0.
C22_Witness ==
    /\ Evaluated
    /\ liquidityUsd = 500
    /\ analysis = [bundleWalletCount |-> 12, block0Volume |-> 60000,
                   holdingConcentration |-> 85]
    /\ security.is_mintable
    /\ scoreOut.score = 0
    /\ Len(scoreOut.breakdown) = 5

\* C30: for every output, honeypot or not, the score is
\* max(0, 100 + sum of the impacts of the breakdown); every impact is at most
\* 0; an entry has impact 0 exactly when its status is pass; the status info
\* is never emitted.
C30_ScoreIsSumOfImpacts ==
    scoreOut # NotScored =>
        /\ scoreOut.score = Max(0, 100 + SumImpacts(scoreOut.breakdown))
        /\ \A k \in 1..Len(scoreOut.breakdown) :
              LET e == scoreOut.breakdown[k]
              IN  /\ e.impact \in Int /\ e.impact <= 0
                  /\ e.impact = 0 <=> e.status = "pass"
                  /\ e.status \in {"pass", "warn", "fail"}

\* An evaluation whose penalties exceed 100 and whose breakdown mixes pass,
\* warn and fail entries.
C30_Witness ==
    /\ Evaluated
    /\ 100 + SumImpacts(scoreOut.breakdown) < 0
    /\ scoreOut.score = 0
    /\ {scoreOut.breakdown[k].status : k \in 1..Len(scoreOut.breakdown)} =
           {"pass", "warn", "fail"}

----------------------------------------------------------------------------
(* Claims about the wallet list of a scan, under SpecScan                  *)

\* C28: in a Solana scan, whatever the letter case of the addresses, the row
\* of a listed holder whose wallet made a counted launch-window buy has
\* isBundler = TRUE: holder and seed-buyer addresses are normalized alike.
C28_SolanaHolderBuyerMatched ==
    (Scanned /\ bestPair.chainId = "solana" /\ forensics.present) =>
        \A k \in 1..Len(forensics.holders) :
            \A buyer \in BuyersOf(forensics.block0Transfers, FALSE) :
                toLowerCase(buyer) = forensics.holders[k].address =>
                    /\ k <= Len(scanResult.wallets)
                    /\ scanResult.wallets[k].address =
                           forensics.holders[k].address
                    /\ scanResult.wallets[k].isBundler

----------------------------------------------------------------------------
(* Claims about termination of the tracer, under SpecTraceFair             *)

\* C27: when every network call settles, every trace returns, whatever the
\* seed list and the transfer graph, cycles among wallets included; the number
\* of fetches it issues is bounded; no node lies beyond hop 3, and a hop-3
\* node has an empty activity list and is never expanded: once the hop-3
\* nodes are being built no further fetch is issued.
C27_TraceReturns ==
    /\ <>Returning
    /\ [](/\ fetchCount <=
              2 * Len(seedAddresses) + 3 * Len(WalletNames)
                  + 3 * MAX_TOTAL_WALLETS
          /\ \A i \in Nodes :
                /\ results[i].traceDepth \in 0..3
                /\ results[i].traceDepth = 3 =>
                       results[i].outgoingTransfers = <<>>)
    /\ [][(tpc = "push3" \/ tpc = "done") => (fetchCount' = fetchCount)]_vars

\* A returned trace over a cycle: a wallet found at hop 1 sends back to a
\* seed, and the trace went on to hop 2.
C27_Witness ==
    /\ Returning
    /\ \E i, j \in Nodes :
          /\ results[i].traceDepth = 0
          /\ results[j].traceDepth = 1
          /\ results[j].address \in Range(results[i].outgoingTransfers)
          /\ results[i].address \in Range(results[j].outgoingTransfers)
    /\ \E i \in Nodes : results[i].traceDepth = 2

----------------------------------------------------------------------------
(* Claims about the requests of a trace, under SpecFetch                   *)

\* C23: while a wallet of hops 0 to 2 is being read, the requests in flight
\* are the two of that wallet (its transfer history and its balance), both of
\* them right after they were issued and never more than two; nothing is in
\* flight when the next wallet is started or when the wallet loop is left, so
\* every node is built after its requests settled.
C23_TwoCallsPerWallet ==
    /\ fpc = "await" =>
           /\ Cardinality(inFlight) <= 2
           /\ \A r \in inFlight : r.at = pos
           /\ Cardinality(pending) = 2 => Cardinality(inFlight) = 2
    /\ (fpc = "loop" \/ fpc = "batch") => inFlight = {}

\* C24: at hop 3 at most 5 balance lookups are in flight at any time, none is
\* in flight when a group is issued, and two groups are never issued one
\* right after the other without a delay between them.
C24_GroupsOfFiveWithDelay ==
    LET lookups ==
            {r \in inFlight :
                r.call \in {"getTokenAccountsByOwner",
                            "getTokenAccountsByOwner2022", "getTokenBalances"}}
    IN  /\ (fpc = "batch" \/ fpc = "batchAwait") =>
               Cardinality({r.at : r \in lookups}) <= 5
        /\ fpc = "batch" => lookups = {}
        /\ \A k \in 1..(Len(trail) - 1) :
               ~(trail[k] = "group" /\ trail[k + 1] = "group")

----------------------------------------------------------------------------
(* Claims about the node built for a wallet, under SpecFetch               *)

\* C25: in a node a tracer built, every outgoing and incoming entry has the
\* wallet on one side and another, non-excluded address on the other side; on
\* the Helius adapter it is a token transfer of the target mint in a
\* transaction that is not swap-like; and no entry of buys or sells has the
\* amount and the timestamp of a transfer entry (no record is listed twice).
C25_TransfersArePlain ==
    ("address" \in DOMAIN walletData /\ fpc # "await") =>
        LET wallet == walletData.address
            f == IF adapter = "helius" THEN "solana" ELSE "evm"
            swaps ==
                {<<e.tokenAmount, e.timestamp>> :
                    e \in Range(walletData.buys) \cup Range(walletData.sells)}
            Plain(from, to, e) ==
                adapter = "helius" =>
                    \E k \in 1..Len(allTxs) :
                        /\ allTxs[k].type \notin {"SWAP", "UNKNOWN"}
                        /\ allTxs[k].source # "PUMP_FUN"
                        /\ allTxs[k].timestamp = e.timestamp
                        /\ [fromUserAccount |-> from, toUserAccount |-> to,
                            mint |-> tokenAddress,
                            tokenAmount |-> e.tokenAmount]
                               \in Range(allTxs[k].tokenTransfers)
            Sides(other, e) ==
                /\ toLowerCase(other) # toLowerCase(wallet)
                /\ ~Excluded(f, other)
                /\ ~Excluded(f, wallet)
                /\ <<e.tokenAmount, e.timestamp>> \notin swaps
        IN  /\ \A e \in Range(walletData.outgoingTransfers) :
                   Sides(e.to, e) /\ Plain(wallet, e.to, e)
            /\ \A e \in Range(walletData.incomingTransfers) :
                   Sides(e.from, e) /\ Plain(e.from, wallet, e)

\* C26: in a node of the Helius tracer with at least one buy, whatever the
\* order of the fetched history: with `above` the native transfers to the
\* wallet above 10,000,000, the funding source is absent exactly when `above`
\* is empty; otherwise its timestamp is the latest one of `above` strictly
\* before the earliest buy and less than 86,400 seconds before it, or the
\* earliest one of `above` when none qualifies; and isCex tells whether the
\* recorded sender is a known exchange wallet.
C26_FundingBeforeEarliestBuy ==
    (/\ "address" \in DOMAIN walletData
     /\ fpc # "await"
     /\ adapter = "helius"
     /\ walletData.buys # <<>>) =>
        LET wallet == walletData.address
            funding == walletData.fundingSource
            buyTimes == {b.timestamp : b \in Range(walletData.buys)}
            firstBuy == CHOOSE t \in buyTimes : \A u \in buyTimes : t <= u
            above ==
                {allTxs[k].timestamp : k \in
                    {m \in 1..Len(allTxs) :
                        \E nt \in Range(allTxs[m].nativeTransfers) :
                            /\ nt.toUserAccount = wallet
                            /\ nt.amount > 10000000}}
            qualifying ==
                {t \in above : t < firstBuy /\ t > firstBuy - 86400}
            expected ==
                IF qualifying # {}
                THEN CHOOSE t \in qualifying : \A u \in qualifying : u <= t
                ELSE CHOOSE t \in above : \A u \in above : t <= u
        IN  /\ funding.present <=> above # {}
            /\ funding.present =>
                   /\ funding.timestamp = expected
                   /\ funding.isCex <=>
                          funding.address
                              = "5tzFkiKscXHK5ZXCGbXZxdw7gTjjD1mBwuoFbhUvuAi9"

\* C29: the sender and the amount of every funding source a node carries are
\* those of one native transfer to the wallet whose amount is above
\* 10,000,000, in the transaction whose timestamp the funding source has.
C29_FundingIsOneAboveDustTransfer ==
    (/\ "address" \in DOMAIN walletData
     /\ fpc # "await"
     /\ adapter = "helius"
     /\ walletData.fundingSource.present) =>
        \E k \in 1..Len(allTxs) :
            /\ allTxs[k].timestamp = walletData.fundingSource.timestamp
            /\ \E nt \in Range(allTxs[k].nativeTransfers) :
                   /\ nt.toUserAccount = walletData.address
                   /\ nt.amount > 10000000
                   /\ nt.fromUserAccount = walletData.fundingSource.address
                   /\ nt.amount = walletData.fundingSource.amount

====
